---- MODULE Spec2Model ----
(***************************************************************************)
(* Lifecycle core of the SecureVault client: the TTL cache over the        *)
(* Durable Store (utils/storage.ts), the Secret Key Cache hook             *)
(* (hooks/use-encryption-key.ts), the reveal timers of the passwords       *)
(* screen (app/(tabs)/passwords.tsx), the decrypted contents of the notes  *)
(* screen, the session store (AuthProvider) and the api transport with its *)
(* unauthorized handler (services/api.ts).                                 *)
(*                                                                         *)
(* Values.  A JavaScript value that may be null or undefined is a record   *)
(* with a tag: Null, Undefined, or Some(x).  A string kept in the Durable  *)
(* Store is a record too: Str(s) for plain text, the result of             *)
(* JsonStringify for JSON text, Garbage for text JSON.parse rejects.       *)
(* Keys are sequences of byte codes, their base-64 form a sequence of      *)
(* sextets.                                                                *)
(***************************************************************************)
EXTENDS Integers, Sequences, FiniteSets, TLC

VARIABLES
    now,                    \* Date.now(), in ms since the model's start
    store,                  \* the Durable Store (AsyncStorage): key -> text or Absent
    storeQ,                 \* session-store operations issued and not yet completed, in order
    requests,               \* api requests in flight
    lastEvent,              \* the operation that produced this state, with its result
    \* --- useEncryptionKey, one instance per screen
    rawKey,                 \* [Screens -> Null or Some(encoded key)], the mirror
    isKeyHydrated,          \* [Screens -> BOOLEAN]
    keyPc,                  \* [Screens -> "unmounted" | "hydrating" | "ready"]
    hydrateRaw,             \* [Screens -> the text the pending hydration read]
    promptKey,              \* [Screens -> BOOLEAN]
    lastSetAt,              \* the latest setKey: [key, at], the time -1 before the first
    \* --- AuthProvider and services/api
    token,                  \* Null or Some(token)
    user,                   \* Null or Some(user object)
    isHydrated,
    encryptionKeyConfigured,
    authHeader,             \* api.defaults.headers.common.Authorization
    unauthorizedHandler,    \* Null or Some("clearSession")
    \* --- PasswordsScreen
    revealedPasswords,      \* [Ids -> Null or Some(plaintext)]
    hideTimers,             \* hideTimers.current: [Ids -> Absent or a timeout handle]
    timers,                 \* the pending timeouts: records [id, left, stale]
    revealedAge,            \* [Ids -> ms since the plaintext of that id was stored]
    \* --- NotesScreen
    activeContent,          \* [NoteIds -> Null or Some(decrypted content)]
    persisted,              \* history: what the last completed session write left
    teardownDue             \* history: a 401 ended a session that is not yet torn down

keyVars == <<rawKey, isKeyHydrated, keyPc, hydrateRaw, promptKey, lastSetAt>>
authVars == <<token, user, isHydrated, encryptionKeyConfigured, authHeader,
              unauthorizedHandler>>
revealVars == <<revealedPasswords, hideTimers, timers, revealedAge, activeContent>>
historyVars == <<persisted, teardownDue>>
vars == <<now, store, storeQ, requests, lastEvent, keyVars, authVars, revealVars,
          historyVars>>

----------------------------------------------------------------------------
(* Bounds of the model *)

MaxEpoch == 1
MaxQueue == 2
MaxInflight == 2

----------------------------------------------------------------------------
(* JavaScript values *)

Null == [tag |-> "null"]
Undefined == [tag |-> "undefined"]
Some(x) == [tag |-> "some", val |-> x]
Absent == [tag |-> "absent"]
Str(s) == [tag |-> "str", s |-> s]
Garbage == [tag |-> "garbage"]

IsSome(x) == x.tag = "some"

\* (x || null, which would turn the empty string into null)
OrNullIfFalsy(x) ==
    IF x = Undefined \/ x = Null \/ x = Some(<<>>) THEN Null ELSE x

\* x ?? null
OrNull(x) == IF x = Undefined \/ x = Null THEN Null ELSE x

\* obj.f : a missing property reads as undefined
Prop(obj, f) == IF f \in DOMAIN obj THEN obj[f] ELSE Undefined

\* JSON.stringify of an object: properties whose value is undefined are left out
JsonStringify(obj) ==
    [tag |-> "json",
     tree |-> [f \in {g \in DOMAIN obj : obj[g] # Undefined} |-> obj[f]]]

\* JSON.parse: the object of a JSON text, a SyntaxError for anything else
JsonParses(raw) == raw.tag = "json"
JsonParse(raw) == raw.tree

\* truthiness of a text read from the Durable Store: there is one and it is
\* not the empty string
TruthyText(raw) == raw # Absent /\ ~(raw.tag = "str" /\ raw.s = "")

----------------------------------------------------------------------------
(* utils/crypto: base-64.  Sextets are 0..63; 64 stands for the padding "=". *)

RECURSIVE toBase64(_)
toBase64(s) ==
    IF Len(s) = 0 THEN <<>>
    ELSE IF Len(s) = 1 THEN
        << s[1] \div 4, (s[1] % 4) * 16, 64, 64 >>
    ELSE IF Len(s) = 2 THEN
        << s[1] \div 4, (s[1] % 4) * 16 + (s[2] \div 16), (s[2] % 16) * 4, 64 >>
    ELSE
        << s[1] \div 4, (s[1] % 4) * 16 + (s[2] \div 16),
           (s[2] % 16) * 4 + (s[3] \div 64), s[3] % 64 >>
        \o toBase64(SubSeq(s, 4, Len(s)))

\* the input with its trailing padding removed, as base-64's decode does when
\* the length is a multiple of four
StripPad(e) ==
    IF Len(e) % 4 # 0 THEN e
    ELSE IF Len(e) >= 2 /\ e[Len(e)] = 64 /\ e[Len(e) - 1] = 64
        THEN SubSeq(e, 1, Len(e) - 2)
    ELSE IF Len(e) >= 1 /\ e[Len(e)] = 64 THEN SubSeq(e, 1, Len(e) - 1)
    ELSE e

RECURSIVE fromSextets(_)
fromSextets(e) ==
    IF Len(e) <= 1 THEN <<>>
    ELSE IF Len(e) = 2 THEN << e[1] * 4 + (e[2] \div 16) >>
    ELSE IF Len(e) = 3 THEN
        << e[1] * 4 + (e[2] \div 16), (e[2] % 16) * 16 + (e[3] \div 4) >>
    ELSE
        << e[1] * 4 + (e[2] \div 16), (e[2] % 16) * 16 + (e[3] \div 4),
           (e[3] % 4) * 64 + e[4] >>
        \o fromSextets(SubSeq(e, 5, Len(e)))

fromBase64(e) == fromSextets(StripPad(e))

\* (an encodeKey that would hand the key back as it is)
encodeKeyPlain(value) == value
encodeKey(value) == toBase64(value)
decodeKey(value) == fromBase64(value)

----------------------------------------------------------------------------
(* Constants of the program *)

STORAGE_KEY == "securevault:ekey"
AUTH_TOKEN_KEY == "securevault:token"
AUTH_USER_KEY == "securevault:user"
AUTH_KEY_FLAG == "securevault:key-configured"
TTL_MS == 5 * 60 * 1000
HIDE_DELAY == 5000

StoreKeys == {STORAGE_KEY, AUTH_TOKEN_KEY, AUTH_USER_KEY, AUTH_KEY_FLAG}
Screens == {"passwords", "notes"}

\* Vault entries of the passwords screen and what the backend decrypts them to
Ids == {"a", "b"}
Secrets == { <<65>>, <<66>> }

\* Notes of the notes screen
NoteIds == {"m", "n"}

\* The instants at which the model looks at the clock: every multiple of the
\* TTL and one ms after it.
TimePoints ==
    {t \in {k * TTL_MS + j : k \in 0..MaxEpoch, j \in {0, 1}} : t >= 0}

\* Keys a user types ("1" and "1234" as character codes)
RawKeys == { <<49>>, <<49, 50, 51, 52>> }

\* ttlMs arguments: omitted, 0, 1 ms, the key cache's TTL
Ttls == {Undefined, Some(0), Some(1), Some(TTL_MS)}

----------------------------------------------------------------------------
(* utils/storage.ts *)

\* truthiness of an optional number
TruthyNum(n) == IsSome(n) /\ n.val # 0

\* (a setItemWithTTL that would stamp every entry, a missing ttl counting as 0)
StoredPayloadStamped(value, ttlMs, t) ==
    JsonStringify([value |-> value,
                   expiresAt |-> Some(t + (IF IsSome(ttlMs) THEN ttlMs.val ELSE 0))])

\* the text setItemWithTTL writes for (value, ttlMs) at time t
StoredPayload(value, ttlMs, t) ==
    JsonStringify([value |-> value,
                   expiresAt |-> IF TruthyNum(ttlMs) THEN Some(t + ttlMs.val)
                                 ELSE Undefined])

\* (a cache that would expire an entry at expiresAt already)
IsExpiredAtOrAfter(parsed, t) ==
    /\ TruthyNum(Prop(parsed, "expiresAt"))
    /\ Prop(parsed, "expiresAt").val <= t

\* parsed.expiresAt && parsed.expiresAt < Date.now()
IsExpired(parsed, t) ==
    /\ TruthyNum(Prop(parsed, "expiresAt"))
    /\ Prop(parsed, "expiresAt").val < t

\* (a getItemWithTTL that would return null on a parse error and keep the entry)
TtlVerdictKeepingCorrupt(raw, t) ==
    IF ~TruthyText(raw) THEN [result |-> Null, purge |-> FALSE]
    ELSE IF ~JsonParses(raw) THEN [result |-> Null, purge |-> FALSE]
    ELSE IF IsExpired(JsonParse(raw), t) THEN [result |-> Null, purge |-> TRUE]
    ELSE [result |-> OrNull(Prop(JsonParse(raw), "value")), purge |-> FALSE]

\* What getItemWithTTL makes of the text `raw` it read, deciding at time t:
\* the value it returns and whether it removes the key first.  No text, or an
\* empty one, is null at once (!raw); a text JSON.parse throws on is caught,
\* the key removed and null returned.
TtlVerdict(raw, t) ==
    IF ~TruthyText(raw) THEN [result |-> Null, purge |-> FALSE]
    ELSE IF ~JsonParses(raw) THEN [result |-> Null, purge |-> TRUE]
    ELSE IF IsExpired(JsonParse(raw), t) THEN [result |-> Null, purge |-> TRUE]
    ELSE [result |-> OrNull(Prop(JsonParse(raw), "value")), purge |-> FALSE]

RemoveItem(st, key) == [st EXCEPT ![key] = Absent]

\* getItemWithTTL(key) at time t on store st: the value returned and the
\* store it leaves
GetItemWithTTL(st, key, t) ==
    LET v == TtlVerdict(st[key], t) IN
    [result |-> v.result,
     store |-> IF v.purge THEN RemoveItem(st, key) ELSE st]

SetItemWithTTL(st, key, value, ttlMs, t) ==
    [st EXCEPT ![key] = StoredPayload(value, ttlMs, t)]

----------------------------------------------------------------------------
(* History, for stating properties: every step records in `persisted` what
   the last completed write to the session's entries left, and in
   `teardownDue` whether a 401 reached the handler while a session existed
   and the session has not been found torn down since. *)

SessionKeysAbsent(st) ==
    /\ st[AUTH_TOKEN_KEY] = Absent
    /\ st[AUTH_USER_KEY] = Absent
    /\ st[AUTH_KEY_FLAG] = Absent

MemoryCleared ==
    /\ token = Null
    /\ user = Null
    /\ encryptionKeyConfigured = FALSE
    /\ authHeader = Absent

TornDown == MemoryCleared /\ SessionKeysAbsent(store)

Track ==
    /\ persisted' =
          IF lastEvent'.op # "stored" THEN persisted
          ELSE IF lastEvent'.done.op = "multiSet"
               THEN [kind |-> "login", payload |-> lastEvent'.done.payload]
          ELSE IF lastEvent'.done.op = "multiRemove"
               THEN [kind |-> IF lastEvent'.done.cause = "signOut"
                              THEN "signedOut" ELSE "cleared"]
          ELSE IF lastEvent'.done.op \in {"setItem", "removeItem"}
                    /\ persisted.kind = "login"
               THEN [kind |-> "rewritten"]
          ELSE persisted
    /\ teardownDue' =
          IF lastEvent'.op \in {"completeLogin", "restart"} THEN FALSE
          ELSE IF TornDown' THEN FALSE
          ELSE IF /\ lastEvent'.op = "rejected"
                  /\ lastEvent'.status = Some(401)
                  /\ lastEvent'.handlerCalls > 0
                  /\ token # Null
               THEN TRUE
          ELSE teardownDue

----------------------------------------------------------------------------
(* The TTL cache exercised on its own: set, get, remove and the clock *)

TtlSet(key, value, ttlMs) ==
    /\ store' = SetItemWithTTL(store, key, value, ttlMs, now)
    /\ lastEvent' = [op |-> "set", key |-> key, value |-> value,
                     ttlMs |-> ttlMs, at |-> now]
    /\ UNCHANGED <<now, storeQ, requests, keyVars, authVars, revealVars>>
    /\ Track

TtlGet(key) ==
    LET r == GetItemWithTTL(store, key, now) IN
    /\ store' = r.store
    /\ lastEvent' = [op |-> "get", key |-> key, raw |-> store[key],
                     result |-> r.result, at |-> now]
    /\ UNCHANGED <<now, storeQ, requests, keyVars, authVars, revealVars>>
    /\ Track

TtlRemove(key) ==
    /\ store' = RemoveItem(store, key)
    /\ lastEvent' = [op |-> "remove", key |-> key]
    /\ UNCHANGED <<now, storeQ, requests, keyVars, authVars, revealVars>>
    /\ Track

\* time passes
AdvanceClock ==
    /\ \E t \in TimePoints : t > now /\ now' = t
    /\ lastEvent' = [op |-> "clock"]
    /\ UNCHANGED <<store, storeQ, requests, keyVars, authVars, revealVars>>
    /\ Track

----------------------------------------------------------------------------
(* Inputs of the session store *)

\* truthiness of an optional string
TruthyStr(x) == IsSome(x) /\ x.val # ""

\* Tokens the backend issues (the login response schema asks for 10
\* characters at least)
Tokens == {"token-aaaa", "token-bbbb"}

UserAnn ==
    [id |-> Some("u1"), name |-> Some("Ann"), email |-> Some("ann@example.org"),
     avatarUrl |-> Undefined, dateOfBirth |-> Undefined, secretAnswer |-> Undefined]
UserBob ==
    [id |-> Some("u2"), name |-> Some("Bob"), email |-> Some("bob@example.org"),
     avatarUrl |-> Null, dateOfBirth |-> Undefined, secretAnswer |-> Undefined]
\* what GET /user/fetch answers
ProfileAnn ==
    [id |-> Some("u1"), name |-> Some("Ann B."), email |-> Some("ann@example.org"),
     avatarUrl |-> Some("https://example.org/a.png"),
     dateOfBirth |-> Some("1990-01-01"), secretAnswer |-> Null]

UserFields == {"id", "name", "email", "avatarUrl", "dateOfBirth", "secretAnswer"}
Profiles == {ProfileAnn}

\* AuthSessionPayload values handed to completeLogin
LoginPayloads ==
    { [token |-> "token-aaaa", user |-> UserAnn, encryptionKeyConfigured |-> Some(TRUE)],
      [token |-> "token-bbbb", user |-> UserBob, encryptionKeyConfigured |-> Undefined] }

\* HTTP outcomes of a request: a status, or no response at all
Statuses == {Some(200), Some(401), Some(500), Undefined}
\* (a client that would take any answer for a success)
IsSuccessAlways(status) == TRUE
\* a 2xx answer resolves the request, anything else rejects it
IsSuccess(status) == status = Some(200)

----------------------------------------------------------------------------
(* services/api.ts *)

\* (a setAuthToken that would set the header and never delete it)
AuthHeaderKept(tok) ==
    IF TruthyStr(tok) THEN [tag |-> "header", scheme |-> "Bearer", token |-> tok.val]
    ELSE authHeader

\* setAuthToken(token): the Authorization header it leaves
AuthHeaderFor(tok) ==
    IF TruthyStr(tok) THEN [tag |-> "header", scheme |-> "Bearer", token |-> tok.val]
    ELSE Absent

\* (an interceptor that would notify on every error)
HandlerCallsOnAnyError(status, handler) ==
    IF handler # Null THEN 1 ELSE 0

\* how many times the response interceptor's error branch calls the handler
HandlerCalls(status, handler) ==
    IF status = Some(401) /\ handler # Null THEN 1 ELSE 0

\* (an interceptor that would call the handler of a 401 without checking that
\* one is registered: with none, the TypeError of the call replaces the error)
RejectedWithUnchecked(status, handler) ==
    IF status = Some(401) /\ handler = Null THEN [error |-> "TypeError"]
    ELSE [error |-> "response", status |-> status]

\* the error the interceptor's promise is rejected with: the handler, an
\* async function, returns a promise the interceptor drops, and
\* Promise.reject(error) hands on the error the interceptor was given
RejectedWith(status, handler) == [error |-> "response", status |-> status]

----------------------------------------------------------------------------
(* AuthProvider: operations on the Durable Store, issued in order *)

OpMultiGet == [op |-> "multiGet"]
\* (`payload` and `cause` record who issued the operation)
OpMultiSet(t, u, f, p) ==
    [op |-> "multiSet", token |-> t, user |-> u, flag |-> f, payload |-> p]
OpMultiRemove(cause) == [op |-> "multiRemove", cause |-> cause]
OpSetItem(k, v) == [op |-> "setItem", key |-> k, value |-> v]
\* removeItem of the user entry inside hydrate, which goes on with the flag it read
OpRemoveUser(flagText) == [op |-> "removeItem", key |-> AUTH_USER_KEY, flag |-> flagText]

\* (a flag that would be persisted as 'false' whatever was asked)
FlagTextFalse(b) == Str("false")
\* value ? 'true' : 'false'
FlagText(b) == Str(IF b THEN "true" ELSE "false")

\* text -> string or null, as multiGet hands it over
TextOrNull(raw) == IF raw = Absent THEN Null ELSE Some(raw)

\* (a signOut that would flip keyConfigured instead of setting it to false)
SignOutTogglingFlag(n, cause) ==
    /\ token' = (IF n > 0 THEN Null ELSE token)
    /\ user' = (IF n > 0 THEN Null ELSE user)
    /\ encryptionKeyConfigured' =
           (IF n > 0 THEN ~encryptionKeyConfigured ELSE encryptionKeyConfigured)
    /\ authHeader' = (IF n > 0 THEN AuthHeaderFor(Null) ELSE authHeader)
    /\ storeQ' = storeQ \o [i \in 1..n |-> OpMultiRemove(cause)]
    /\ Len(storeQ) + n <= MaxQueue
    /\ UNCHANGED <<isHydrated, unauthorizedHandler>>

\* signOut: set the in-memory session to nothing, clear the header, issue
\* multiRemove.  `n` is the number of times it runs in this step.
SignOutTimes(n, cause) ==
    /\ token' = (IF n > 0 THEN Null ELSE token)
    /\ user' = (IF n > 0 THEN Null ELSE user)
    /\ encryptionKeyConfigured' = (IF n > 0 THEN FALSE ELSE encryptionKeyConfigured)
    /\ authHeader' = (IF n > 0 THEN AuthHeaderFor(Null) ELSE authHeader)
    /\ storeQ' = storeQ \o [i \in 1..n |-> OpMultiRemove(cause)]
    /\ Len(storeQ) + n <= MaxQueue
    /\ UNCHANGED <<isHydrated, unauthorizedHandler>>

\* The error branch of the response interceptor: call the handler
\* (clearSession, which runs signOut up to its await), then reject.
InterceptError(status) ==
    SignOutTimes(HandlerCalls(status, unauthorizedHandler), "unauthorized")

\* the first render's effects: hydrate() and onUnauthorized(clearSession)
AuthMount ==
    /\ unauthorizedHandler = Null
    /\ unauthorizedHandler' = Some("clearSession")
    /\ storeQ' = Append(storeQ, OpMultiGet)
    /\ lastEvent' = [op |-> "authMount"]
    /\ UNCHANGED <<now, store, requests, keyVars, revealVars, token, user,
                   isHydrated, encryptionKeyConfigured, authHeader>>
    /\ Track

\* encryptionKeyConfigured: keyConfigured = false
KeyConfiguredOf(p) ==
    IF p.encryptionKeyConfigured = Undefined THEN FALSE
    ELSE p.encryptionKeyConfigured.val

\* (a store that would serve the login's write ahead of operations issued
\* before it)
IssueMultiSetAhead(q, o) == <<o>> \o q
\* await AsyncStorage.multiSet(...): the write queues behind the operations
\* issued before it
IssueMultiSet(q, o) == Append(q, o)

\* completeLogin(payload), which the sign-in screen calls; that screen is
\* rendered once the session is hydrated
CompleteLogin(p) ==
    /\ unauthorizedHandler # Null
    /\ isHydrated
    /\ Len(storeQ) < MaxQueue
    /\ token' = Some(p.token)
    /\ user' = Some(p.user)
    /\ encryptionKeyConfigured' = KeyConfiguredOf(p)
    /\ authHeader' = AuthHeaderFor(Some(p.token))
    /\ storeQ' = IssueMultiSet(storeQ, OpMultiSet(Str(p.token), JsonStringify(p.user),
                                                  FlagText(KeyConfiguredOf(p)), p))
    /\ lastEvent' = [op |-> "completeLogin", payload |-> p]
    /\ UNCHANGED <<now, store, requests, keyVars, revealVars, isHydrated,
                   unauthorizedHandler>>
    /\ Track

\* signOut called by the account screen
SignOut ==
    /\ unauthorizedHandler # Null
    /\ SignOutTimes(1, "signOut")
    /\ lastEvent' = [op |-> "signOut"]
    /\ UNCHANGED <<now, store, requests, keyVars, revealVars>>
    /\ Track

\* setEncryptionKeyConfigured(value), as a step of the handler that calls it
SetEncryptionKeyConfigured(value) ==
    /\ Len(storeQ) < MaxQueue
    /\ encryptionKeyConfigured' = value
    /\ storeQ' = Append(storeQ, OpSetItem(AUTH_KEY_FLAG, FlagText(value)))

\* hydrate from the three texts multiGet read
HydrateToken(tokText) ==
    IF TruthyText(tokText) THEN Some(tokText.s) ELSE token

\* (a hydrate that would take any stored flag text for true)
HydrateFlagTruthy(flagText) ==
    IF TruthyText(flagText) THEN TRUE ELSE encryptionKeyConfigured

\* if (keyConfiguredValue) setKeyConfigured(keyConfiguredValue === 'true')
HydrateFlag(flagText) ==
    IF TruthyText(flagText) THEN flagText = Str("true") ELSE encryptionKeyConfigured

\* isAuthenticated: Boolean(token)
IsAuthenticated == TruthyStr(token)

\* (a removal that would leave the token entry)
AfterMultiRemoveKeepingToken(st) ==
    [st EXCEPT ![AUTH_USER_KEY] = Absent, ![AUTH_KEY_FLAG] = Absent]

\* the store after multiRemove of the three session keys
AfterMultiRemove(st) ==
    [st EXCEPT ![AUTH_TOKEN_KEY] = Absent, ![AUTH_USER_KEY] = Absent,
               ![AUTH_KEY_FLAG] = Absent]

\* (a hydrate that would skip a user text it cannot parse and leave the entry)
CorruptUserIgnored(userText) == FALSE

\* hydrate's inner catch is entered: a user text is present and JSON.parse
\* throws on it
CorruptUser(userText) == TruthyText(userText) /\ ~JsonParses(userText)

\* One operation on the Durable Store completes; the handler awaiting it goes on.
StoreStep ==
    /\ storeQ # <<>>
    /\ LET o == Head(storeQ)
           rest == Tail(storeQ) IN
       /\ lastEvent' = [op |-> "stored", done |-> o]
       /\ CASE o.op = "multiGet" ->
                 LET tokText == store[AUTH_TOKEN_KEY]
                     userText == store[AUTH_USER_KEY]
                     flagText == store[AUTH_KEY_FLAG]
                     corrupt == CorruptUser(userText) IN
                 /\ token' = HydrateToken(tokText)
                 /\ authHeader' = (IF TruthyText(tokText)
                                   THEN AuthHeaderFor(Some(tokText.s)) ELSE authHeader)
                 /\ user' = (IF TruthyText(userText) /\ JsonParses(userText)
                             THEN Some(JsonParse(userText)) ELSE user)
                 /\ encryptionKeyConfigured' =
                        (IF corrupt THEN encryptionKeyConfigured
                         ELSE HydrateFlag(flagText))
                 /\ isHydrated' = (IF corrupt THEN isHydrated ELSE TRUE)
                 /\ storeQ' = (IF corrupt THEN Append(rest, OpRemoveUser(flagText))
                               ELSE rest)
                 /\ UNCHANGED <<store, unauthorizedHandler>>
            [] o.op = "multiSet" ->
                 /\ store' = [store EXCEPT ![AUTH_TOKEN_KEY] = o.token,
                                           ![AUTH_USER_KEY] = o.user,
                                           ![AUTH_KEY_FLAG] = o.flag]
                 /\ storeQ' = rest
                 /\ UNCHANGED authVars
            [] o.op = "multiRemove" ->
                 /\ store' = AfterMultiRemove(store)
                 /\ storeQ' = rest
                 /\ UNCHANGED authVars
            [] o.op = "setItem" ->
                 /\ store' = [store EXCEPT ![o.key] = o.value]
                 /\ storeQ' = rest
                 /\ UNCHANGED authVars
            [] o.op = "removeItem" ->
                 /\ store' = RemoveItem(store, o.key)
                 /\ storeQ' = rest
                 /\ encryptionKeyConfigured' = HydrateFlag(o.flag)
                 /\ isHydrated' = TRUE
                 /\ UNCHANGED <<token, user, authHeader, unauthorizedHandler>>
    /\ UNCHANGED <<now, requests, keyVars, revealVars>>
    /\ Track

\* where the rejection of a failed store operation ends: in hydrate's catch,
\* with the caller of completeLogin or signOut, or, for the signOut that
\* clearSession ran for the interceptor, with nobody (the promise was dropped)
RejectionReaches(o) ==
    IF o.op \in {"multiGet", "removeItem"} THEN "caught"
    ELSE IF o.op = "multiRemove" /\ o.cause = "unauthorized" THEN "nobody"
    ELSE "caller"

\* (a hydrate whose setIsHydrated(true) would be the last statement of its try)
HydratedAfterFailureNever(o) == FALSE
\* finally { setIsHydrated(true) } runs also when an operation of hydrate failed
HydratedAfterFailure(o) == o.op \in {"multiGet", "removeItem"}

\* what AuthLayout renders: the spinner until hydrated, then the redirect to
\* the tabs for an authenticated user, else the sign-in stack
AuthLayout(hydrated, authenticated) ==
    IF ~hydrated THEN "spinner"
    ELSE IF authenticated THEN "redirect" ELSE "stack"

\* the auth layout renders with the context's current value
AuthLayoutRender ==
    /\ lastEvent' = [op |-> "authLayout", hydrated |-> isHydrated,
                     shows |-> AuthLayout(isHydrated, IsAuthenticated)]
    /\ UNCHANGED <<now, store, storeQ, requests, keyVars, authVars, revealVars>>
    /\ Track

\* One operation of hydrate, completeLogin or signOut on the Durable Store
\* fails: the store stays as it was and the handler awaiting it is rejected;
\* hydrate catches and still reaches setIsHydrated(true) without applying
\* what it had not applied yet.
StoreFail ==
    /\ storeQ # <<>>
    /\ Head(storeQ).op \in {"multiGet", "multiSet", "multiRemove", "removeItem"}
    /\ storeQ' = Tail(storeQ)
    /\ isHydrated' = (IF HydratedAfterFailure(Head(storeQ)) THEN TRUE ELSE isHydrated)
    /\ lastEvent' = [op |-> "storeFailed", done |-> Head(storeQ),
                     raisedTo |-> RejectionReaches(Head(storeQ))]
    /\ UNCHANGED <<now, store, requests, keyVars, revealVars, token, user,
                   encryptionKeyConfigured, authHeader, unauthorizedHandler>>
    /\ Track

----------------------------------------------------------------------------
(* hooks/use-encryption-key.ts, and the screens' handleKeySubmit *)

\* truthiness of the mirror
TruthyKey(k) == IsSome(k) /\ k.val # <<>>

\* decodedKey = rawKey ? decodeKey(rawKey) : null
DecodedKey(k) == IF TruthyKey(k) THEN Some(decodeKey(k.val)) ELSE Null

\* (a setKey that would persist the key without a TTL)
SetKeyStoreForever(st, value, t) ==
    SetItemWithTTL(st, STORAGE_KEY, Some(encodeKey(value)), Undefined, t)

\* the store after setKey(value) persisted it at time t
SetKeyStore(st, value, t) ==
    SetItemWithTTL(st, STORAGE_KEY, Some(encodeKey(value)), Some(TTL_MS), t)

\* (a clearKey that would leave the persisted entry)
ClearKeyStoreKeeping(st) == st
\* the store after clearKey(): removeItem(STORAGE_KEY)
ClearKeyStore(st) == RemoveItem(st, STORAGE_KEY)

\* the screen mounts: the hook's effect starts hydrate(), whose read is issued
KeyMount(s) ==
    /\ keyPc[s] = "unmounted"
    /\ keyPc' = [keyPc EXCEPT ![s] = "hydrating"]
    /\ hydrateRaw' = [hydrateRaw EXCEPT ![s] = store[STORAGE_KEY]]
    /\ lastEvent' = [op |-> "keyMount", screen |-> s]
    /\ UNCHANGED <<now, store, storeQ, requests, rawKey, isKeyHydrated, promptKey,
                   lastSetAt, authVars, revealVars>>
    /\ Track

\* (a hydrate that would count as done only when it restored a key)
IsHydratedOnlyWithKey(result) == OrNull(result) # Null
\* finally { setIsHydrated(true) }: whatever the read gave
IsHydratedAfter(result) == TRUE

\* hydrate() resumes with what it read: getItemWithTTL decides at the current
\* time, purges if it must, and the mirror and the flag are set
KeyHydrateFinish(s) ==
    /\ keyPc[s] = "hydrating"
    /\ LET v == TtlVerdict(hydrateRaw[s], now) IN
       /\ store' = (IF v.purge THEN RemoveItem(store, STORAGE_KEY) ELSE store)
       /\ rawKey' = [rawKey EXCEPT ![s] = OrNull(v.result)]
       /\ lastEvent' = [op |-> "keyHydrated", screen |-> s, raw |-> hydrateRaw[s],
                        result |-> v.result, at |-> now]
    /\ isKeyHydrated' = [isKeyHydrated EXCEPT ![s] =
                             IsHydratedAfter(TtlVerdict(hydrateRaw[s], now).result)]
    /\ keyPc' = [keyPc EXCEPT ![s] = "ready"]
    /\ hydrateRaw' = [hydrateRaw EXCEPT ![s] = Absent]
    /\ UNCHANGED <<now, storeQ, requests, promptKey, lastSetAt, authVars, revealVars>>
    /\ Track

\* a handler of the screen finds no key: setPromptKey(true)
PromptForKey(s) ==
    /\ keyPc[s] # "unmounted"
    /\ ~TruthyKey(rawKey[s])
    /\ ~promptKey[s]
    /\ promptKey' = [promptKey EXCEPT ![s] = TRUE]
    /\ lastEvent' = [op |-> "prompt", screen |-> s]
    /\ UNCHANGED <<now, store, storeQ, requests, rawKey, isKeyHydrated, keyPc,
                   hydrateRaw, lastSetAt, authVars, revealVars>>
    /\ Track

\* a submission of the screen's modal is under way: its verify request is in
\* flight, or its handler is between setKey and setEncryptionKeyConfigured
VerifyInFlight(s) ==
    \E r \in requests : r.kind \in {"verify", "keySaved"} /\ r.screen = s /\ ~r.stale

\* the character code of the space
SPACE == 32

\* (a submission that would take its input as typed)
TrimNothing(v) == v

\* value.trim(), for values whose whitespace is spaces
RECURSIVE Trim(_)
Trim(v) ==
    IF v = <<>> THEN v
    ELSE IF Head(v) = SPACE THEN Trim(Tail(v))
    ELSE IF v[Len(v)] = SPACE THEN Trim(SubSeq(v, 1, Len(v) - 1))
    ELSE v

\* The modal's handleSubmit and the screen's handleKeySubmit(value): a value
\* that is blank once trimmed ends both at once; else POST /pin/verify is
\* sent with the trimmed value.
KeySubmit(s, value) ==
    /\ promptKey[s] /\ isKeyHydrated[s]
    /\ ~VerifyInFlight(s)
    /\ requests' =
          (IF Trim(value) = <<>> THEN requests
           ELSE requests \cup {[kind |-> "verify", screen |-> s,
                                candidate |-> Trim(value), stale |-> FALSE]})
    /\ lastEvent' = [op |-> "keySubmit", screen |-> s, value |-> value,
                     sent |-> Trim(value) # <<>>]
    /\ UNCHANGED <<now, store, storeQ, keyVars, authVars, revealVars>>
    /\ Track

\* /pin/verify answers.  On success setKey(candidate) runs: the mirror is set
\* and the entry written with its TTL; `wrote` tells whether that write
\* succeeded.  If it did the handler goes on (KeySubmitFinish); if it did
\* not, setKey rejects into the handler's catch, which reports an invalid
\* key.  On an error of the request the interceptor runs and the catch
\* reports.  Whenever the handler ends the modal closes (onClose).
VerifyResponse(r, status, wrote) ==
    /\ r \in requests /\ r.kind = "verify"
    /\ IF IsSuccess(status)
       THEN /\ rawKey' = (IF r.stale THEN rawKey
                          ELSE [rawKey EXCEPT ![r.screen] = Some(encodeKey(r.candidate))])
            /\ lastSetAt' = [key |-> r.candidate, at |-> now]
            /\ IF wrote
               THEN /\ store' = SetKeyStore(store, r.candidate, now)
                    /\ requests' = (requests \ {r}) \cup {[r EXCEPT !.kind = "keySaved"]}
                    /\ UNCHANGED promptKey
               ELSE /\ requests' = requests \ {r}
                    /\ promptKey' = (IF r.stale THEN promptKey
                                     ELSE [promptKey EXCEPT ![r.screen] = FALSE])
                    /\ UNCHANGED store
            /\ lastEvent' = [op |-> "setKey", screen |-> r.screen,
                             value |-> r.candidate, at |-> now, wrote |-> wrote,
                             status |-> status, stale |-> r.stale,
                             prior |-> store[STORAGE_KEY],
                             reported |-> IF wrote THEN "pending" ELSE "invalid key"]
            /\ UNCHANGED <<storeQ, authVars>>
       ELSE /\ InterceptError(status)
            /\ requests' = requests \ {r}
            /\ promptKey' = (IF r.stale THEN promptKey
                             ELSE [promptKey EXCEPT ![r.screen] = FALSE])
            /\ lastEvent' = [op |-> "rejected", kind |-> r.kind, status |-> status,
                             handlerCalls |-> HandlerCalls(status, unauthorizedHandler),
                             error |-> RejectedWith(status, unauthorizedHandler)]
            /\ UNCHANGED <<store, rawKey, lastSetAt>>
    /\ UNCHANGED <<now, isKeyHydrated, keyPc, hydrateRaw, revealVars>>
    /\ Track

\* handleKeySubmit goes on after setKey: setEncryptionKeyConfigured(true),
\* the success toast, setPromptKey(false)
KeySubmitFinish(r) ==
    /\ r \in requests /\ r.kind = "keySaved"
    /\ requests' = requests \ {r}
    /\ SetEncryptionKeyConfigured(TRUE)
    /\ promptKey' = (IF r.stale THEN promptKey
                     ELSE [promptKey EXCEPT ![r.screen] = FALSE])
    /\ lastEvent' = [op |-> "keyConfigured", screen |-> r.screen, value |-> TRUE,
                     reported |-> "saved"]
    /\ UNCHANGED <<now, store, rawKey, isKeyHydrated, keyPc, hydrateRaw, lastSetAt,
                   token, user, isHydrated, authHeader, unauthorizedHandler,
                   revealVars>>
    /\ Track

\* the screen reads the hook's encodedKey and key (a render, or a handler
\* that sends the key with a request)
ObserveKey(s) ==
    /\ keyPc[s] # "unmounted"
    /\ lastEvent' = [op |-> "observe", screen |-> s, encodedKey |-> rawKey[s],
                     key |-> DecodedKey(rawKey[s]), at |-> now]
    /\ UNCHANGED <<now, store, storeQ, requests, keyVars, authVars, revealVars>>
    /\ Track

----------------------------------------------------------------------------
(* app/(tabs)/passwords.tsx: handleReveal and the hide timers *)

Truthy(x) == IsSome(x) /\ x.val # <<>>

RevealsInFlight == {r \in requests : r.kind = "reveal"}

\* A pending timeout is [id, left, stale]: the entry its callback deletes, the
\* ms until it is due, and whether the screen instance that set it is gone.
\* A handle names a timeout by what identifies it among the pending ones of
\* its instance, its id and its remaining time: Some(left), or Some(-1) once
\* the timeout has run or has been cleared.
HandleOf(t) == Some(t.left)

\* (a handleReveal that would clear every timeout of its registry)
ClearEveryTimeout(tm, id, h) == {t \in tm : t.stale}

\* clearTimeout(h) for the handle h the registry holds for id
ClearTimeout(tm, id, h) ==
    {t \in tm : ~(IsSome(h) /\ ~t.stale /\ t.id = id /\ t.left = h.val)}

\* (a handleReveal whose timer would run after half the delay)
NewTimerEarly(id, stale) == [id |-> id, left |-> HIDE_DELAY \div 2, stale |-> stale]

\* the timer handleReveal starts
NewTimer(id, stale) == [id |-> id, left |-> HIDE_DELAY, stale |-> stale]

\* (a handleReveal that would clear the old timer and set none)
TimersNotScheduled(tm, ht, id) ==
    IF ht[id] # Absent THEN ClearTimeout(tm, id, ht[id]) ELSE tm

\* handleReveal after a decrypt: the pending timeouts once the timer of `id`
\* held by the registry `ht` is cleared (if any) and the new one is set
TimersAfterReveal(tm, ht, id) ==
    (IF ht[id] # Absent THEN ClearTimeout(tm, id, ht[id]) ELSE tm)
        \cup {NewTimer(id, FALSE)}

\* the Reveal button of an entry that shows no plaintext is pressed while a
\* key is held: POST /vault/:id is sent with the key
HandleReveal(id) ==
    /\ keyPc["passwords"] # "unmounted"
    /\ TruthyKey(rawKey["passwords"])
    /\ ~Truthy(revealedPasswords[id])
    /\ Cardinality(RevealsInFlight) < MaxInflight
    /\ LET same == {r \in RevealsInFlight : r.id = id}
           n == CHOOSE k \in 1..MaxInflight :
                    /\ \A r \in same : r.n # k
                    /\ \A j \in 1..(k - 1) : \E r \in same : r.n = j IN
       requests' = requests \cup
            {[kind |-> "reveal", id |-> id, stale |-> FALSE, n |-> n]}
    /\ lastEvent' = [op |-> "handleReveal", id |-> id]
    /\ UNCHANGED <<now, store, storeQ, keyVars, authVars, revealVars>>
    /\ Track

\* POST /vault/:id answers.  On success the plaintext is stored and the hide
\* timer replaced; a response for a screen that has unmounted sets no state
\* and still starts its timer in the registry of the instance that is gone
\* (the registries of instances that are gone are kept as one).  On an error the interceptor runs, and a 401
\* makes the catch call clearKey().
RevealResponse(r, status, secret) ==
    /\ r \in requests /\ r.kind = "reveal"
    /\ requests' = requests \ {r}
    /\ IF IsSuccess(status)
       THEN /\ LET plain == decodeKey(encodeKey(secret)) IN
               IF r.stale
               THEN /\ timers' = {t \in timers : ~(t.stale /\ t.id = r.id)}
                                    \cup {NewTimer(r.id, TRUE)}
                    /\ UNCHANGED <<revealedPasswords, hideTimers, revealedAge>>
               ELSE /\ revealedPasswords' =
                            [revealedPasswords EXCEPT ![r.id] = Some(plain)]
                    /\ timers' = TimersAfterReveal(timers, hideTimers, r.id)
                    /\ hideTimers' = [hideTimers EXCEPT ![r.id] =
                                          HandleOf(NewTimer(r.id, FALSE))]
                    /\ revealedAge' = [revealedAge EXCEPT ![r.id] = 0]
            /\ lastEvent' = [op |-> "revealed", id |-> r.id]
            /\ UNCHANGED <<store, storeQ, rawKey, authVars>>
       ELSE /\ InterceptError(status)
            /\ rawKey' = (IF status = Some(401) /\ ~r.stale
                          THEN [rawKey EXCEPT !["passwords"] = Null] ELSE rawKey)
            /\ store' = (IF status = Some(401) THEN ClearKeyStore(store) ELSE store)
            /\ lastEvent' = [op |-> "rejected", kind |-> r.kind, status |-> status,
                             stale |-> r.stale,
                             handlerCalls |-> HandlerCalls(status, unauthorizedHandler),
                             error |-> RejectedWith(status, unauthorizedHandler)]
            /\ UNCHANGED revealVars
    /\ UNCHANGED <<now, isKeyHydrated, keyPc, hydrateRaw, promptKey, lastSetAt,
                   activeContent>>
    /\ Track

\* a timeout that is due runs its callback: delete next[id]
TimerFire(t) ==
    /\ t \in timers /\ t.left = 0
    /\ timers' = timers \ {t}
    /\ revealedPasswords' = (IF t.stale THEN revealedPasswords
                             ELSE [revealedPasswords EXCEPT ![t.id] = Null])
    /\ revealedAge' = (IF t.stale THEN revealedAge
                       ELSE [revealedAge EXCEPT ![t.id] = 0])
    /\ hideTimers' = (IF ~t.stale /\ hideTimers[t.id] = HandleOf(t)
                      THEN [hideTimers EXCEPT ![t.id] = Some(-1)] ELSE hideTimers)
    /\ lastEvent' = [op |-> "timerFired", id |-> t.id]
    /\ UNCHANGED <<now, store, storeQ, requests, keyVars, authVars, activeContent>>
    /\ Track

\* d ms pass on the timers' scale; a timeout runs when it is due, so time does
\* not pass one.  The age of a plaintext stops counting half a delay past the delay.
TimePasses(d) ==
    /\ d > 0
    /\ \A t \in timers : d <= t.left
    /\ timers # {} \/ \E i \in Ids : revealedPasswords[i] # Null
    /\ timers' = {[t EXCEPT !.left = t.left - d] : t \in timers}
    /\ hideTimers' =
           [i \in Ids |->
               IF ~IsSome(hideTimers[i]) THEN hideTimers[i]
               ELSE IF hideTimers[i].val >= d THEN Some(hideTimers[i].val - d)
               ELSE Some(-1)]
    /\ revealedAge' =
           [i \in Ids |->
               IF revealedPasswords[i] = Null THEN 0
               ELSE IF revealedAge[i] + d > HIDE_DELAY + HIDE_DELAY \div 2 THEN HIDE_DELAY + HIDE_DELAY \div 2
               ELSE revealedAge[i] + d]
    /\ (\E i \in Ids : revealedAge'[i] # revealedAge[i]) \/ timers' # timers
    /\ lastEvent' = [op |-> "timePasses"]
    /\ UNCHANGED <<now, store, storeQ, requests, keyVars, authVars,
                   revealedPasswords, activeContent>>
    /\ Track

\* the steps time is watched at: half the delay, or up to a pending timeout
TimeSteps == {HIDE_DELAY \div 2} \cup {t.left : t \in timers}

\* The screen unmounts: its state and its hook's state are gone, the cleanup
\* effect clears every timeout hideTimers.current holds, and the requests it
\* sent stay in flight for handlers of the instance that is gone.
ScreenUnmount(s) ==
    /\ keyPc[s] = "ready"
    /\ keyPc' = [keyPc EXCEPT ![s] = "unmounted"]
    /\ rawKey' = [rawKey EXCEPT ![s] = Null]
    /\ isKeyHydrated' = [isKeyHydrated EXCEPT ![s] = FALSE]
    /\ promptKey' = [promptKey EXCEPT ![s] = FALSE]
    /\ requests' =
          {IF \/ r.kind \in {"verify", "keySaved"} /\ r.screen = s
              \/ r.kind = "reveal" /\ s = "passwords"
              \/ r.kind = "decrypt" /\ s = "notes"
           THEN [r EXCEPT !.stale = TRUE] ELSE r : r \in requests}
    /\ IF s = "passwords"
       THEN /\ timers' = {[t EXCEPT !.stale = TRUE] :
                            t \in {u \in timers :
                                    u.stale \/ hideTimers[u.id] # HandleOf(u)}}
            /\ hideTimers' = [i \in Ids |-> Absent]
            /\ revealedPasswords' = [i \in Ids |-> Null]
            /\ revealedAge' = [i \in Ids |-> 0]
            /\ UNCHANGED activeContent
       ELSE /\ activeContent' = [n \in NoteIds |-> Null]
            /\ UNCHANGED <<revealedPasswords, hideTimers, timers, revealedAge>>
    /\ lastEvent' = [op |-> "unmount", screen |-> s]
    /\ UNCHANGED <<now, store, storeQ, hydrateRaw, lastSetAt, authVars>>
    /\ Track

----------------------------------------------------------------------------
(* The notes screen: decryptNote *)

\* a note that shows no content is expanded while a key is held:
\* POST /journal/:id is sent with the key
DecryptNote(id) ==
    /\ keyPc["notes"] # "unmounted"
    /\ TruthyKey(rawKey["notes"])
    /\ ~Truthy(activeContent[id])
    /\ \A r \in requests : ~(r.kind = "decrypt" /\ r.id = id)
    /\ requests' = requests \cup {[kind |-> "decrypt", id |-> id, stale |-> FALSE]}
    /\ lastEvent' = [op |-> "decryptNote", id |-> id]
    /\ UNCHANGED <<now, store, storeQ, keyVars, authVars, revealVars>>
    /\ Track

\* POST /journal/:id answers.  On success the content is stored in
\* activeContent (nothing else is done with it); on an error the interceptor
\* runs and the catch only reports.
DecryptResponse(r, status, secret) ==
    /\ r \in requests /\ r.kind = "decrypt"
    /\ requests' = requests \ {r}
    /\ IF IsSuccess(status)
       THEN /\ activeContent' =
                   (IF r.stale THEN activeContent
                    ELSE [activeContent EXCEPT ![r.id] =
                              Some(decodeKey(encodeKey(secret)))])
            /\ lastEvent' = [op |-> "decrypted", id |-> r.id]
            /\ UNCHANGED <<storeQ, authVars>>
       ELSE /\ InterceptError(status)
            /\ lastEvent' = [op |-> "rejected", kind |-> r.kind, status |-> status,
                             handlerCalls |-> HandlerCalls(status, unauthorizedHandler),
                             error |-> RejectedWith(status, unauthorizedHandler)]
            /\ UNCHANGED activeContent
    /\ UNCHANGED <<now, store, keyVars, revealedPasswords, hideTimers, timers,
                   revealedAge>>
    /\ Track

----------------------------------------------------------------------------
(* Other requests through the transport, and the process *)

\* (a refreshUser that would fetch the profile whether a token is held or not)
RefreshSendsAlways(tok) == TRUE

\* if (!token) return: refreshUser goes on to the request only with a token
RefreshSends(tok) == TruthyStr(tok)

\* refreshUser(): nothing without a token, else GET /user/fetch is sent
RefreshUserStart ==
    /\ unauthorizedHandler # Null
    /\ \A r \in requests : r.kind # "refreshUser"
    /\ requests' = (IF RefreshSends(token) THEN requests \cup {[kind |-> "refreshUser"]}
                    ELSE requests)
    /\ lastEvent' = [op |-> "refreshUser", sent |-> RefreshSends(token)]
    /\ UNCHANGED <<now, store, storeQ, keyVars, authVars, revealVars>>
    /\ Track

\* GET /user/fetch answers: setUser(data) and setItem(user), or the error
\* goes through the interceptor to refreshUser's caller
RefreshUserResponse(r, status, data) ==
    /\ r \in requests /\ r.kind = "refreshUser"
    /\ requests' = requests \ {r}
    /\ IF IsSuccess(status)
       THEN /\ Len(storeQ) < MaxQueue
            /\ user' = Some(data)
            /\ storeQ' = Append(storeQ, OpSetItem(AUTH_USER_KEY, JsonStringify(data)))
            /\ lastEvent' = [op |-> "userRefreshed"]
            /\ UNCHANGED <<token, isHydrated, encryptionKeyConfigured, authHeader,
                           unauthorizedHandler>>
       ELSE /\ InterceptError(status)
            /\ lastEvent' = [op |-> "rejected", kind |-> r.kind, status |-> status,
                             handlerCalls |-> HandlerCalls(status, unauthorizedHandler),
                             error |-> RejectedWith(status, unauthorizedHandler)]
    /\ UNCHANGED <<now, store, keyVars, revealVars>>
    /\ Track

\* any other call through api (fetchVault, fetchNotes, ...)
ApiRequest ==
    /\ unauthorizedHandler # Null
    /\ \A r \in requests : r.kind # "api"
    /\ requests' = requests \cup {[kind |-> "api"]}
    /\ lastEvent' = [op |-> "apiRequest"]
    /\ UNCHANGED <<now, store, storeQ, keyVars, authVars, revealVars>>
    /\ Track

ApiResponse(r, status) ==
    /\ r \in requests /\ r.kind = "api"
    /\ requests' = requests \ {r}
    /\ IF IsSuccess(status)
       THEN /\ lastEvent' = [op |-> "resolved", kind |-> r.kind]
            /\ UNCHANGED <<authVars, storeQ>>
       ELSE /\ InterceptError(status)
            /\ lastEvent' = [op |-> "rejected", kind |-> r.kind, status |-> status,
                             handlerCalls |-> HandlerCalls(status, unauthorizedHandler),
                             error |-> RejectedWith(status, unauthorizedHandler)]
    /\ UNCHANGED <<now, store, keyVars, revealVars>>
    /\ Track

\* The process ends and the app is launched again: memory is new, requests and
\* store operations that had not completed are gone, the Durable Store stays.
Restart ==
    /\ lastEvent.op # "restart"
    /\ storeQ' = <<>>
    /\ requests' = {}
    /\ lastEvent' = [op |-> "restart"]
    /\ rawKey' = [s \in Screens |-> Null]
    /\ isKeyHydrated' = [s \in Screens |-> FALSE]
    /\ keyPc' = [s \in Screens |-> "unmounted"]
    /\ hydrateRaw' = [s \in Screens |-> Absent]
    /\ promptKey' = [s \in Screens |-> FALSE]
    /\ token' = Null
    /\ user' = Null
    /\ isHydrated' = FALSE
    /\ encryptionKeyConfigured' = FALSE
    /\ authHeader' = Absent
    /\ unauthorizedHandler' = Null
    /\ revealedPasswords' = [i \in Ids |-> Null]
    /\ hideTimers' = [i \in Ids |-> Absent]
    /\ timers' = {}
    /\ revealedAge' = [i \in Ids |-> 0]
    /\ activeContent' = [n \in NoteIds |-> Null]
    /\ UNCHANGED <<now, store, lastSetAt>>
    /\ Track

----------------------------------------------------------------------------
(* The state after the modules are loaded and before the first render.  The
   Durable Store outlives the process: at launch it is empty, or holds the
   key that a run which ended at this instant had just cached. *)

\* memory as the modules and the first render leave it
InitMemory ==
    /\ now = 0
    /\ storeQ = <<>>
    /\ requests = {}
    /\ lastEvent = [op |-> "init"]
    /\ rawKey = [s \in Screens |-> Null]
    /\ isKeyHydrated = [s \in Screens |-> FALSE]
    /\ keyPc = [s \in Screens |-> "unmounted"]
    /\ hydrateRaw = [s \in Screens |-> Absent]
    /\ promptKey = [s \in Screens |-> FALSE]
    /\ token = Null
    /\ user = Null
    /\ isHydrated = FALSE
    /\ encryptionKeyConfigured = FALSE
    /\ authHeader = Absent
    /\ unauthorizedHandler = Null
    /\ revealedPasswords = [i \in Ids |-> Null]
    /\ hideTimers = [i \in Ids |-> Absent]
    /\ timers = {}
    /\ revealedAge = [i \in Ids |-> 0]
    /\ activeContent = [n \in NoteIds |-> Null]
    /\ persisted = [kind |-> "none"]
    /\ teardownDue = FALSE

Init ==
    /\ \E cached \in {Null, Some(<<49>>)} :
          /\ store = (IF cached = Null THEN [k \in StoreKeys |-> Absent]
                      ELSE SetKeyStore([k \in StoreKeys |-> Absent], cached.val, 0))
          /\ lastSetAt = (IF cached = Null THEN [key |-> <<>>, at |-> -1]
                          ELSE [key |-> cached.val, at |-> 0])
    /\ InitMemory

\* Texts the session's entries may hold at launch when the user entry is one
\* that JSON.parse rejects: the token missing, empty or present, the flag
\* missing, "true" or "false"
StoredTokens == {Absent, Str(""), Str("token-aaaa")}
StoredFlags == {Absent, Str("true"), Str("false")}

\* User entries at launch: none, one that JSON.parse rejects, a stored profile
StoredUsers == {Absent, Garbage, JsonStringify(UserAnn)}

\* a launch over a Durable Store left by an earlier run
InitLaunch ==
    /\ \E t \in StoredTokens, u \in StoredUsers, f \in StoredFlags :
          store = [k \in StoreKeys |->
                      IF k = AUTH_TOKEN_KEY THEN t
                      ELSE IF k = AUTH_USER_KEY THEN u
                      ELSE IF k = AUTH_KEY_FLAG THEN f
                      ELSE Absent]
    /\ lastSetAt = [key |-> <<>>, at |-> -1]
    /\ InitMemory

\* a launch over a Durable Store whose user entry does not deserialize
InitCorruptUser ==
    /\ \E t \in StoredTokens, f \in StoredFlags :
          store = [k \in StoreKeys |->
                      IF k = AUTH_TOKEN_KEY THEN t
                      ELSE IF k = AUTH_USER_KEY THEN Garbage
                      ELSE IF k = AUTH_KEY_FLAG THEN f
                      ELSE Absent]
    /\ lastSetAt = [key |-> <<>>, at |-> -1]
    /\ InitMemory

NextTTL ==
    \/ \E v \in RawKeys, ttl \in Ttls : TtlSet(STORAGE_KEY, Some(encodeKey(v)), ttl)
    \/ TtlGet(STORAGE_KEY)
    \/ TtlRemove(STORAGE_KEY)
    \/ AdvanceClock

SpecTTL == Init /\ [][NextTTL]_vars

\* the Secret Key Cache with its clock
NextKey ==
    \/ KeyMount("passwords")
    \/ KeyHydrateFinish("passwords")
    \/ PromptForKey("passwords")
    \/ \E v \in RawKeys : KeySubmit("passwords", v)
    \/ \E r \in requests, st \in Statuses : VerifyResponse(r, st, TRUE)
    \/ \E r \in requests : KeySubmitFinish(r)
    \/ ObserveKey("passwords")
    \/ ScreenUnmount("passwords")
    \/ StoreStep
    \/ AdvanceClock
    \/ Restart

SpecKey == Init /\ [][NextKey]_vars

\* launch: hydration of the session, with store operations that may fail, and
\* the auth layout rendering meanwhile
NextLaunch ==
    \/ AuthMount
    \/ AuthLayoutRender
    \/ \E p \in LoginPayloads : CompleteLogin(p)
    \/ SignOut
    \/ StoreStep
    \/ StoreFail
    \/ Restart

SpecLaunch == InitLaunch /\ [][NextLaunch]_vars

\* a session in which the profile refresh and the key submission are started
\* only while a token is held, and which may be signed out meanwhile
NextSignOutRace ==
    \/ AuthMount
    \/ \E p \in LoginPayloads : CompleteLogin(p)
    \/ SignOut
    \/ RefreshUserStart
    \/ \E r \in requests, st \in Statuses, d \in Profiles : RefreshUserResponse(r, st, d)
    \/ KeyMount("passwords")
    \/ KeyHydrateFinish("passwords")
    \/ PromptForKey("passwords")
    \/ (token # Null /\ KeySubmit("passwords", <<49>>))
    \/ \E r \in requests, st \in Statuses : VerifyResponse(r, st, TRUE)
    \/ \E r \in requests : KeySubmitFinish(r)
    \/ StoreStep

SpecSignOutRace == Init /\ [][NextSignOutRace]_vars

\* logins and sign-outs, explicit or by a 401, of a hydrated session
NextLoginRace ==
    \/ AuthMount
    \/ \E p \in LoginPayloads : CompleteLogin(p)
    \/ (isHydrated /\ SignOut)
    \/ (isHydrated /\ ApiRequest)
    \/ \E r \in requests, st \in Statuses : ApiResponse(r, st)
    \/ StoreStep

SpecLoginRace == Init /\ [][NextLoginRace]_vars

\* the passwords and the notes screen mounted side by side, each with its
\* own useEncryptionKey: a key is submitted on the passwords screen, and
\* cleared there by a reveal that is answered 401
NextTwoScreens ==
    \/ \E s \in Screens : KeyMount(s)
    \/ \E s \in Screens : KeyHydrateFinish(s)
    \/ PromptForKey("passwords")
    \/ KeySubmit("passwords", <<49>>)
    \/ \E r \in requests, st \in Statuses : VerifyResponse(r, st, TRUE)
    \/ \E r \in requests : KeySubmitFinish(r)
    \/ StoreStep
    \/ HandleReveal("a")
    \/ \E r \in requests, st \in Statuses, x \in Secrets : RevealResponse(r, st, x)

SpecTwoScreens == Init /\ [][NextTwoScreens]_vars

\* the key cache of the passwords screen over its lifetime: keys are
\* submitted and stored, time passes, the screen and the process come and go
NextKeyLife ==
    \/ KeyMount("passwords")
    \/ KeyHydrateFinish("passwords")
    \/ PromptForKey("passwords")
    \/ \E v \in RawKeys : KeySubmit("passwords", v)
    \/ \E r \in requests : VerifyResponse(r, Some(200), TRUE)
    \/ \E r \in requests : KeySubmitFinish(r)
    \/ ScreenUnmount("passwords")
    \/ StoreStep
    \/ AdvanceClock
    \/ Restart

SpecKeyLife == Init /\ [][NextKeyLife]_vars

\* the key cache of the passwords screen, cleared by a reveal that is answered
\* 401, across unmounts and restarts
NextClear ==
    \/ KeyMount("passwords")
    \/ KeyHydrateFinish("passwords")
    \/ HandleReveal("a")
    \/ \E r \in requests, st \in Statuses, x \in Secrets : RevealResponse(r, st, x)
    \/ ScreenUnmount("passwords")
    \/ AdvanceClock
    \/ Restart

SpecClear == Init /\ [][NextClear]_vars

\* What a user may type into the modal: nothing, a space, a key with a
\* leading space, a key
TypedKeys == { <<>>, <<SPACE>>, <<SPACE, 49>>, <<49, 50, 51, 52>> }

\* key submission on the passwords screen, with any typed value and with
\* writes of the key entry that may fail
NextSubmit ==
    \/ KeyMount("passwords")
    \/ KeyHydrateFinish("passwords")
    \/ PromptForKey("passwords")
    \/ \E v \in TypedKeys : KeySubmit("passwords", v)
    \/ \E r \in requests, st \in Statuses, w \in BOOLEAN : VerifyResponse(r, st, w)
    \/ \E r \in requests : KeySubmitFinish(r)
    \/ StoreStep
    \/ AdvanceClock

SpecSubmit == Init /\ [][NextSubmit]_vars

\* the passwords screen with its reveal timers
NextReveal ==
    \/ KeyMount("passwords")
    \/ KeyHydrateFinish("passwords")
    \/ \E i \in Ids : HandleReveal(i)
    \/ \E r \in requests, st \in Statuses, x \in Secrets : RevealResponse(r, st, x)
    \/ \E t \in timers : TimerFire(t)
    \/ \E d \in TimeSteps : TimePasses(d)
    \/ ScreenUnmount("passwords")

SpecReveal == Init /\ [][NextReveal]_vars

\* the passwords screen revealing one entry, again and again
NextRevealOne ==
    \/ KeyMount("passwords")
    \/ KeyHydrateFinish("passwords")
    \/ HandleReveal("a")
    \/ \E r \in requests, st \in Statuses, x \in Secrets : RevealResponse(r, st, x)
    \/ \E t \in timers : TimerFire(t)
    \/ \E d \in TimeSteps : TimePasses(d)
    \/ ScreenUnmount("passwords")

SpecRevealOne == Init /\ [][NextRevealOne]_vars

\* the session store and the transport
NextAuth ==
    \/ AuthMount
    \/ \E p \in LoginPayloads : CompleteLogin(p)
    \/ SignOut
    \/ RefreshUserStart
    \/ \E r \in requests, st \in Statuses, d \in Profiles : RefreshUserResponse(r, st, d)
    \/ ApiRequest
    \/ \E r \in requests, st \in Statuses : ApiResponse(r, st)
    \/ StoreStep
    \/ Restart

SpecAuth == Init /\ [][NextAuth]_vars

\* a session with the Secret Key Cache of the passwords screen
NextSession ==
    \/ AuthMount
    \/ \E p \in LoginPayloads : CompleteLogin(p)
    \/ SignOut
    \/ ApiRequest
    \/ \E r \in requests, st \in Statuses : ApiResponse(r, st)
    \/ KeyMount("passwords")
    \/ KeyHydrateFinish("passwords")
    \/ PromptForKey("passwords")
    \/ KeySubmit("passwords", <<49>>)
    \/ \E r \in requests, st \in Statuses : VerifyResponse(r, st, TRUE)
    \/ \E r \in requests : KeySubmitFinish(r)
    \/ StoreStep
    \/ Restart

SpecSession == Init /\ [][NextSession]_vars

\* the passwords screen, revealing one entry, inside a session that may end
NextRevealSession ==
    \/ AuthMount
    \/ SignOut
    \/ StoreStep
    \/ KeyMount("passwords")
    \/ KeyHydrateFinish("passwords")
    \/ HandleReveal("a")
    \/ \E r \in requests, st \in Statuses, x \in Secrets : RevealResponse(r, st, x)
    \/ \E t \in timers : TimerFire(t)
    \/ \E d \in TimeSteps : TimePasses(d)
    \/ ScreenUnmount("passwords")

SpecRevealSession == Init /\ [][NextRevealSession]_vars

\* the transport and its handler, with requests sent before and after the
\* handler is registered and store operations that may fail
NextNotify ==
    \/ AuthMount
    \/ \E p \in LoginPayloads : CompleteLogin(p)
    \/ ApiRequest
    \/ \E r \in requests, st \in Statuses : ApiResponse(r, st)
    \/ KeyMount("passwords")
    \/ KeyHydrateFinish("passwords")
    \/ PromptForKey("passwords")
    \/ KeySubmit("passwords", <<49>>)
    \/ \E r \in requests, st \in Statuses : VerifyResponse(r, st, TRUE)
    \/ \E r \in requests : KeySubmitFinish(r)
    \/ StoreStep
    \/ StoreFail
    \/ Restart

SpecNotify == Init /\ [][NextNotify]_vars

\* the notes screen with its decrypted contents
NextNotes ==
    \/ KeyMount("notes")
    \/ KeyHydrateFinish("notes")
    \/ \E n \in NoteIds : DecryptNote(n)
    \/ \E r \in requests, st \in Statuses, x \in Secrets : DecryptResponse(r, st, x)
    \/ PromptForKey("notes")
    \/ KeySubmit("notes", <<49>>)
    \/ \E r \in requests, st \in Statuses : VerifyResponse(r, st, TRUE)
    \/ \E r \in requests : KeySubmitFinish(r)
    \/ StoreStep
    \/ ScreenUnmount("notes")

SpecNotes == Init /\ [][NextNotes]_vars

\* Texts the key entry may hold at launch other than a payload written by
\* setItemWithTTL: none, the empty text, a text that is no JSON
StoredTexts == {Absent, Str(""), Garbage}

\* Values handed to setItemWithTTL: the empty string and two encoded keys
CacheValues == {Some(<<>>)} \cup {Some(encodeKey(v)) : v \in RawKeys}

\* a launch over a Durable Store whose key entry holds such a text
InitCache ==
    /\ \E x \in StoredTexts :
          store = [k \in StoreKeys |-> IF k = STORAGE_KEY THEN x ELSE Absent]
    /\ lastSetAt = [key |-> <<>>, at |-> -1]
    /\ InitMemory

\* the TTL cache over any text and any value
NextCache ==
    \/ \E v \in CacheValues, ttl \in Ttls : TtlSet(STORAGE_KEY, v, ttl)
    \/ TtlGet(STORAGE_KEY)
    \/ TtlRemove(STORAGE_KEY)
    \/ AdvanceClock

SpecCache == InitCache /\ [][NextCache]_vars

\* hydration of the session from a Durable Store with a corrupt user entry
NextHydrate ==
    \/ AuthMount
    \/ \E p \in LoginPayloads : CompleteLogin(p)
    \/ SignOut
    \/ ApiRequest
    \/ \E r \in requests, st \in Statuses : ApiResponse(r, st)
    \/ StoreStep
    \/ Restart

SpecHydrate == InitCorruptUser /\ [][NextHydrate]_vars

Next ==
    NextTTL \/ NextKey \/ NextReveal \/ NextAuth \/ NextSession \/ NextNotes
       \/ NextCache \/ NextHydrate \/ NextRevealSession \/ NextNotify
       \/ NextSubmit
    \/ NextClear
    \/ NextKeyLife
    \/ NextLaunch
    \/ NextSignOutRace
    \/ NextLoginRace
    \/ NextTwoScreens
    \/ NextRevealOne

Spec == Init /\ [][Next]_vars

----------------------------------------------------------------------------
(* C1 *)

\* a getItemWithTTL that read an entry with an expiry
ReadWithExpiry ==
    /\ lastEvent.op = "get"
    /\ lastEvent.raw # Absent
    /\ JsonParses(lastEvent.raw)
    /\ TruthyNum(Prop(JsonParse(lastEvent.raw), "expiresAt"))

ReadExpiresAt == Prop(JsonParse(lastEvent.raw), "expiresAt").val

\* C1, as claimed: a getItemWithTTL at any time now >= expiresAt, the
\* instant now = expiresAt included, returns null and leaves the key absent
\* from the Durable Store.
C1_ExpiredAtOrAfter ==
    (ReadWithExpiry /\ lastEvent.at >= ReadExpiresAt)
        => (lastEvent.result = Null /\ store[lastEvent.key] = Absent)

\* C1, as the code has it: a getItemWithTTL at a time strictly after
\* expiresAt returns null and leaves the key absent from the Durable Store;
\* at now = expiresAt (and before) it still returns the value and keeps the
\* entry as it was.
C1_ExpiredStrictlyAfter ==
    ReadWithExpiry =>
        IF lastEvent.at > ReadExpiresAt
        THEN lastEvent.result = Null /\ store[lastEvent.key] = Absent
        ELSE /\ lastEvent.result = OrNull(Prop(JsonParse(lastEvent.raw), "value"))
             /\ store[lastEvent.key] = lastEvent.raw

\* an entry was read after its expiry: null returned, key gone
C1_Witness ==
    /\ ReadWithExpiry
    /\ lastEvent.at > ReadExpiresAt
    /\ lastEvent.result = Null
    /\ store[lastEvent.key] = Absent

----------------------------------------------------------------------------
(* C2 *)

\* an observation through the hook that yields the key of the latest setKey
ObservesLatestKey ==
    /\ lastEvent.op = "observe"
    /\ IsSome(lastEvent.key)
    /\ lastSetAt.at >= 0
    /\ lastEvent.key.val = lastSetAt.key

\* C2: after setKey at time t with no later setKey, no observation of the key
\* through useEncryptionKey at a time later than t + TTL_MS yields that key.
C2_NeverOlderThanTTL ==
    ObservesLatestKey => lastEvent.at <= lastSetAt.at + TTL_MS

----------------------------------------------------------------------------
(* C3 *)

\* C3: a plaintext that a reveal stored is gone from revealedPasswords once
\* the 5-second delay has passed since the latest reveal of its id: no entry
\* holds a plaintext older than HIDE_DELAY.
C3_HiddenAfterDelay ==
    \A i \in Ids : revealedPasswords[i] # Null => revealedAge[i] <= HIDE_DELAY

\* the timer of a revealed entry has run and the entry shows no plaintext
C3_Witness ==
    /\ lastEvent.op = "timerFired"
    /\ hideTimers[lastEvent.id] = Some(-1)
    /\ revealedPasswords[lastEvent.id] = Null

----------------------------------------------------------------------------
(* C4 *)

\* the timeouts pending for id i
PendingTimers(i) == {t \in timers : t.id = i}

\* C4: in every reachable state at most one hide timer is pending per record id.
C4_AtMostOneTimerPerId ==
    \A i \in Ids : Cardinality(PendingTimers(i)) <= 1

----------------------------------------------------------------------------
(* C5 *)

\* the multiRemove operations in a queue of store operations: signOut issues
\* one each time it runs
MultiRemoves(q) == Cardinality({i \in 1..Len(q) : q[i].op = "multiRemove"})

\* the step settles a request through the transport
SettlesRequest ==
    /\ lastEvent'.op \in {"rejected", "resolved", "userRefreshed"}
    /\ unauthorizedHandler # Null

\* C5: for every response through the transport the registered handler runs
\* exactly once if the status is 401 and not at all otherwise (a response
\* that is no 401 leaves the session untouched), and the error is then
\* rejected, with its status, to the caller of the request.
C5_NotifiedOnceIff401 ==
    [][SettlesRequest =>
         LET calls == MultiRemoves(storeQ') - MultiRemoves(storeQ)
             is401 == lastEvent'.op = "rejected" /\ lastEvent'.status = Some(401) IN
         /\ calls = (IF is401 THEN 1 ELSE 0)
         /\ is401 => MemoryCleared'
         /\ lastEvent'.op = "rejected" =>
               /\ lastEvent'.handlerCalls = calls
               /\ lastEvent'.status # Some(200)
               /\ Cardinality(requests') = Cardinality(requests) - 1
               /\ ~is401 => UNCHANGED authVars]_vars

\* a 401 was rejected to its caller after the handler ran once
C5_Witness ==
    /\ lastEvent.op = "rejected"
    /\ lastEvent.status = Some(401)
    /\ lastEvent.handlerCalls = 1
    /\ storeQ # <<>>
    /\ storeQ[Len(storeQ)].op = "multiRemove"

----------------------------------------------------------------------------
(* C6 *)

\* nothing is in flight: no request, no store operation
Quiescent == requests = {} /\ storeQ = <<>>

\* C6: after a 401 for a request while a session exists and the handler is
\* registered, the system reaches a state where the in-memory session is
\* cleared, the header is cleared and the three persisted entries are
\* removed: it never comes to rest with that teardown still due.
C6_TornDownAfter401 == ~(teardownDue /\ Quiescent)

----------------------------------------------------------------------------
(* C7 *)

\* C7: when the rejected 401 is delivered to the caller, signOut has
\* completed: the session is cleared in memory and the three persisted
\* session keys are removed from the Durable Store.
C7_TornDownAtDelivery ==
    (lastEvent.op = "rejected" /\ lastEvent.status = Some(401)
        /\ lastEvent.handlerCalls = 1)
    => TornDown

----------------------------------------------------------------------------
(* C8 *)

\* the event of a step in which signOut ran
IsTeardown(e) ==
    \/ e.op = "signOut"
    \/ e.op = "rejected" /\ e.handlerCalls = 1

\* C8: a teardown that follows a teardown leaves the in-memory session and
\* the Authorization header as the first left them, and a multiRemove always
\* leaves the three session keys absent, changing nothing when they already are.
C8_SecondTeardownNoOp ==
    [][/\ (IsTeardown(lastEvent) /\ IsTeardown(lastEvent')) =>
             /\ UNCHANGED <<token, user, encryptionKeyConfigured, authHeader>>
             /\ MemoryCleared'
       /\ (lastEvent'.op = "stored" /\ lastEvent'.done.op = "multiRemove") =>
             /\ SessionKeysAbsent(store')
             /\ SessionKeysAbsent(store) => store' = store]_vars

\* two teardowns ran in sequence: both their removals are pending
C8_Witness ==
    /\ IsTeardown(lastEvent)
    /\ MemoryCleared
    /\ MultiRemoves(storeQ) = 2

----------------------------------------------------------------------------
(* C9 *)

\* the step in which hydrate() reaches setIsHydrated(true)
HydrationCompletes == ~isHydrated /\ isHydrated'

\* C9: when the last completed write to the session's entries is the multiSet
\* of completeLogin(p), hydration in a later process yields isAuthenticated,
\* p's token (also as the Authorization header), encryptionKeyConfigured as
\* given (false when omitted) and a user equal to p's field for field, and
\* sends no request.
C9_LoginRoundTrip ==
    [][(HydrationCompletes /\ persisted.kind = "login") =>
         LET p == persisted.payload IN
         /\ IsAuthenticated'
         /\ token' = Some(p.token)
         /\ authHeader' = AuthHeaderFor(Some(p.token))
         /\ encryptionKeyConfigured' = KeyConfiguredOf(p)
         /\ IsSome(user')
         /\ \A f \in UserFields : Prop(user'.val, f) = Prop(p.user, f)
         /\ requests' = requests]_vars

\* a process launched after a completed login has hydrated that session
C9_Witness ==
    /\ lastEvent.op = "stored"
    /\ lastEvent.done.op = "multiGet"
    /\ isHydrated
    /\ persisted.kind = "login"
    /\ token = Some(persisted.payload.token)
    /\ encryptionKeyConfigured = KeyConfiguredOf(persisted.payload)

----------------------------------------------------------------------------
(* C10 *)

\* C10: signOut leaves the in-memory token and user null and keyConfigured
\* false, clears the Authorization header and issues the removal of the three
\* persisted keys, which leaves none of them in the Durable Store; hydration
\* in a later process then yields isAuthenticated = false.
C10_SignOutClears ==
    [][/\ lastEvent'.op = "signOut" =>
             /\ MemoryCleared'
             /\ ~IsAuthenticated'
             /\ storeQ' = Append(storeQ, OpMultiRemove("signOut"))
       /\ (lastEvent'.op = "stored" /\ lastEvent'.done.op = "multiRemove") =>
             SessionKeysAbsent(store')
       /\ (HydrationCompletes /\ persisted.kind = "signedOut") =>
             (token' = Null /\ ~IsAuthenticated')]_vars

\* a process launched after a completed signOut has hydrated: no session
C10_Witness ==
    /\ lastEvent.op = "stored"
    /\ lastEvent.done.op = "multiGet"
    /\ isHydrated
    /\ persisted.kind = "signedOut"
    /\ SessionKeysAbsent(store)
    /\ ~IsAuthenticated

----------------------------------------------------------------------------
(* C11 *)

\* the step in which the multiRemove of a signOut completes on a persisted session
SignOutCompletes ==
    /\ lastEvent'.op = "stored"
    /\ lastEvent'.done.op = "multiRemove"
    /\ persisted.kind \in {"login", "rewritten"}

\* C11: when signOut (explicit or triggered by a 401) has completed, the
\* persisted encryption-key entry is absent from the Durable Store and the
\* in-memory key mirror is absent.
C11_KeyDestroyedOnSignOut ==
    [][SignOutCompletes =>
         /\ store'[STORAGE_KEY] = Absent
         /\ \A s \in Screens : rawKey'[s] = Null]_vars

----------------------------------------------------------------------------
(* C12 *)

\* the step in which hydrate's multiGet returns a user text that does not parse
ReadsCorruptUser ==
    /\ lastEvent'.op = "stored"
    /\ lastEvent'.done.op = "multiGet"
    /\ store[AUTH_USER_KEY] # Absent
    /\ ~JsonParses(store[AUTH_USER_KEY])

\* the step in which the removal of the corrupt user entry completes
CorruptUserRemoved ==
    /\ lastEvent'.op = "stored"
    /\ lastEvent'.done.op = "removeItem"

\* C12: when hydration reads a persisted user that fails to deserialize, the
\* token read in the same batch is applied (if non-empty, also as the
\* Authorization header), no user is set and the removal of the user entry is
\* issued; when that removal completes the entry is gone, the key-configured
\* flag read in the batch is applied, user is null and isHydrated is true.
\* A hydrated provider never sits on a user entry that does not parse.
C12_CorruptUserDiscarded ==
    [][/\ ReadsCorruptUser =>
             LET tokText == store[AUTH_TOKEN_KEY] IN
             /\ token' = (IF tokText \in {Absent, Str("")} THEN token
                          ELSE Some(tokText.s))
             /\ authHeader' = (IF tokText \in {Absent, Str("")} THEN authHeader
                               ELSE AuthHeaderFor(Some(tokText.s)))
             /\ user' = user
             /\ storeQ' = Append(Tail(storeQ), OpRemoveUser(store[AUTH_KEY_FLAG]))
             /\ store' = store
       /\ CorruptUserRemoved =>
             LET flagText == lastEvent'.done.flag IN
             /\ store'[AUTH_USER_KEY] = Absent
             /\ \A k \in StoreKeys \ {AUTH_USER_KEY} : store'[k] = store[k]
             /\ encryptionKeyConfigured' =
                    (IF flagText = Str("true") THEN TRUE
                     ELSE IF flagText = Str("false") THEN FALSE
                     ELSE encryptionKeyConfigured)
             /\ user' = Null
             /\ token' = token
             /\ isHydrated'
       /\ isHydrated' =>
             (store'[AUTH_USER_KEY] = Absent \/ JsonParses(store'[AUTH_USER_KEY]))]_vars

\* hydration over a corrupt user entry has completed with the token and the
\* flag of the batch applied and the entry removed
C12_Witness ==
    /\ lastEvent.op = "stored"
    /\ lastEvent.done.op = "removeItem"
    /\ lastEvent.done.flag = Str("true")
    /\ isHydrated
    /\ user = Null
    /\ token = Some("token-aaaa")
    /\ authHeader = AuthHeaderFor(Some("token-aaaa"))
    /\ encryptionKeyConfigured
    /\ store[AUTH_USER_KEY] = Absent
    /\ store[AUTH_TOKEN_KEY] = Str("token-aaaa")

----------------------------------------------------------------------------
(* C13 *)

\* a getItemWithTTL whose JSON.parse threw on the text it read
ReadFailedToParse ==
    /\ lastEvent.op = "get"
    /\ TruthyText(lastEvent.raw)
    /\ ~JsonParses(lastEvent.raw)

\* C13: when getItemWithTTL reads a stored value that fails to parse, it
\* returns null to its caller and the key is removed from the Durable Store.
C13_CorruptPayloadPurged ==
    ReadFailedToParse =>
        (lastEvent.result = Null /\ store[lastEvent.key] = Absent)

\* a read met a text that is no JSON: null came back and the entry is gone
C13_Witness ==
    /\ lastEvent.op = "get"
    /\ lastEvent.raw = Garbage
    /\ lastEvent.result = Null
    /\ store[STORAGE_KEY] = Absent

----------------------------------------------------------------------------
(* C14 *)

\* the instants setItemWithTTL may have run at
SetTimes == {t \in TimePoints : t <= now}

\* C14: setItemWithTTL(key, v, ttl) writes a payload from which a
\* getItemWithTTL(key) at any time strictly before its expiresAt (at any
\* time when it has none) returns exactly v, the empty string included, and
\* that read leaves the stored entry as it was.
C14_RoundTrip ==
    [][\A v \in CacheValues, ttl \in Ttls, t0 \in SetTimes :
         /\ (lastEvent' = [op |-> "set", key |-> STORAGE_KEY, value |-> v,
                           ttlMs |-> ttl, at |-> t0])
                => store'[STORAGE_KEY] = StoredPayload(v, ttl, t0)
         /\ (/\ lastEvent'.op = "get"
             /\ store[STORAGE_KEY] = StoredPayload(v, ttl, t0)
             /\ (ttl \in {Undefined, Some(0)} \/ now < t0 + ttl.val))
                => (lastEvent'.result = v /\ store' = store)]_vars

\* the empty string written with a TTL was read back before its expiry
C14_Witness ==
    /\ lastEvent.op = "get"
    /\ lastEvent.result = Some(<<>>)
    /\ store[STORAGE_KEY] = StoredPayload(Some(<<>>), Some(TTL_MS), 1)
    /\ now = TTL_MS

----------------------------------------------------------------------------
(* C15 *)

\* C15: whenever decrypted content is held for display (revealedPasswords
\* in the passwords screen, activeContent in the notes screen), an auto-hide
\* timer of the screen is pending for it.
C15_EveryPlaintextHasTimer ==
    /\ \A i \in Ids :
          revealedPasswords[i] # Null => \E t \in timers : t.id = i /\ ~t.stale
    /\ \A n \in NoteIds :
          activeContent[n] # Null => \E t \in timers : t.id = n /\ ~t.stale

----------------------------------------------------------------------------
(* C16 *)

\* a decrypt request (reveal, note decrypt) was rejected with a 401
DecryptRejected401 ==
    /\ lastEvent.op = "rejected"
    /\ lastEvent.kind \in {"reveal", "decrypt"}
    /\ lastEvent.status = Some(401)

\* C16: whenever a decrypt request fails with a 401, on every decrypt path,
\* the key cache is cleared: the mirror of the screen is absent and the
\* persisted encryption-key entry is removed.
C16_KeyClearedOn401 ==
    DecryptRejected401 =>
        /\ store[STORAGE_KEY] = Absent
        /\ rawKey[IF lastEvent.kind = "reveal" THEN "passwords" ELSE "notes"] = Null

----------------------------------------------------------------------------
(* C17 *)

\* C17: when a reveal's decrypt call is rejected with a 401, every plaintext
\* revealed at that moment is removed from revealedPasswords at once.
C17_RevealedDieWithKey ==
    (/\ lastEvent.op = "rejected"
     /\ lastEvent.kind = "reveal"
     /\ lastEvent.status = Some(401))
    => \A i \in Ids : revealedPasswords[i] = Null

----------------------------------------------------------------------------
(* C18 *)

\* the passwords screen has just unmounted, or the user has just signed out
UnmountedOrSignedOut ==
    \/ lastEvent.op = "unmount" /\ lastEvent.screen = "passwords"
    \/ lastEvent.op = "signOut"

\* C18: when the passwords screen unmounts and when the user signs out,
\* every reveal timer pending at that moment is cancelled: none is left that
\* could still execute its expiry side effect.
C18_HideAllOnUnmountAndSignOut ==
    UnmountedOrSignedOut => timers = {}

----------------------------------------------------------------------------
(* C19 *)

\* the step sets, replaces or fires the hide timer of an entry
TimerStepOf(a) ==
    /\ lastEvent'.op \in {"revealed", "timerFired"}
    /\ lastEvent'.id = a

\* C19: for any two distinct record ids a and b, the firing, cancellation or
\* replacement of a's timer leaves b's revealed plaintext, b's registry
\* entry and b's pending timers unchanged.
C19_TimersIndependent ==
    [][\A a \in Ids, b \in Ids :
         (a # b /\ TimerStepOf(a)) =>
            /\ revealedPasswords'[b] = revealedPasswords[b]
            /\ hideTimers'[b] = hideTimers[b]
            /\ PendingTimers(b)' = PendingTimers(b)]_vars

\* the timer of one entry has fired while another entry is still revealed
\* with its own timer pending
C19_Witness ==
    /\ lastEvent.op = "timerFired"
    /\ \E b \in Ids \ {lastEvent.id} :
          /\ revealedPasswords[b] # Null
          /\ \E t \in timers : t.id = b /\ ~t.stale /\ HandleOf(t) = hideTimers[b]

----------------------------------------------------------------------------
(* C20 *)

----------------------------------------------------------------------------
(* C21 *)

\* the step in which the setItem of a refreshed user completes
UserWriteCompletes ==
    /\ lastEvent'.op = "stored"
    /\ lastEvent'.done.op = "setItem"
    /\ lastEvent'.done.key = AUTH_USER_KEY

\* C21: refreshUser without a token sends no request and changes neither
\* memory nor the Durable Store; with a token it sends the request, and on
\* the answer sets the in-memory user to the fetched profile and writes the
\* persisted user with it, leaving the token in memory and in the store, the
\* key-configured flag and the Authorization header as they were.
C21_RefreshUserFrame ==
    [][/\ lastEvent'.op = "refreshUser" =>
             /\ requests' = (IF token = Null THEN requests
                             ELSE requests \cup {[kind |-> "refreshUser"]})
             /\ UNCHANGED <<authVars, store, storeQ>>
       /\ lastEvent'.op = "userRefreshed" =>
             /\ \E d \in Profiles :
                    /\ user' = Some(d)
                    /\ storeQ' = Append(storeQ, OpSetItem(AUTH_USER_KEY, JsonStringify(d)))
             /\ UNCHANGED <<token, encryptionKeyConfigured, authHeader, store>>
       /\ UserWriteCompletes =>
             /\ \E d \in Profiles : store'[AUTH_USER_KEY] = JsonStringify(d)
             /\ \A k \in StoreKeys \ {AUTH_USER_KEY} : store'[k] = store[k]
             /\ UNCHANGED authVars]_vars

\* the profile fetched with a token is the user in memory and in the store,
\* next to the token that was there
C21_Witness ==
    /\ lastEvent.op = "stored"
    /\ lastEvent.done.op = "setItem"
    /\ lastEvent.done.key = AUTH_USER_KEY
    /\ IsSome(token)
    /\ store[AUTH_TOKEN_KEY] = Str(token.val)
    /\ user = Some(ProfileAnn)
    /\ store[AUTH_USER_KEY] = JsonStringify(ProfileAnn)

----------------------------------------------------------------------------
(* C22 *)

\* the write of the key-configured entry that setEncryptionKeyConfigured issued
\* completes
FlagWriteCompletes ==
    /\ lastEvent'.op = "stored"
    /\ lastEvent'.done.op = "setItem"
    /\ lastEvent'.done.key = AUTH_KEY_FLAG

\* C22: setEncryptionKeyConfigured(b) sets the in-memory flag to b and issues
\* the write of b's text to the key-configured entry, and neither that step
\* nor the completion of the write touches the token, the user, the
\* Authorization header, the key mirror or the persisted key entry.
C22_FlagFrame ==
    [][/\ lastEvent'.op = "keyConfigured" =>
            /\ encryptionKeyConfigured' = lastEvent'.value
            /\ storeQ' = Append(storeQ,
                    OpSetItem(AUTH_KEY_FLAG,
                              Str(IF lastEvent'.value THEN "true" ELSE "false")))
            /\ UNCHANGED <<token, user, authHeader, rawKey, store>>
       /\ FlagWriteCompletes =>
            /\ store' = [store EXCEPT ![AUTH_KEY_FLAG] = Head(storeQ).value]
            /\ UNCHANGED <<token, user, authHeader, rawKey,
                           encryptionKeyConfigured>>]_vars

\* the flag is true in memory and in the store while the cached key has expired
C22_Witness ==
    /\ lastEvent.op = "stored"
    /\ lastEvent.done.op = "setItem"
    /\ lastEvent.done.key = AUTH_KEY_FLAG
    /\ encryptionKeyConfigured
    /\ store[AUTH_KEY_FLAG] = Str("true")
    /\ JsonParses(store[STORAGE_KEY])
    /\ IsExpired(JsonParse(store[STORAGE_KEY]), now)

----------------------------------------------------------------------------
(* C23 *)

\* nothing but white space, or nothing at all
Blank(v) == \A i \in 1..Len(v) : v[i] = SPACE

\* C23: submitting an empty or whitespace-only key sends no request, issues no
\* write to the Durable Store, and leaves the key mirror, the persisted key
\* entry and the key-configured flag as they were.
C23_BlankKeyRejected ==
    [][(lastEvent'.op = "keySubmit" /\ Blank(lastEvent'.value)) =>
          UNCHANGED <<requests, storeQ, store, rawKey, lastSetAt,
                      encryptionKeyConfigured>>]_vars

\* a key of one space was submitted, and nothing was sent
C23_Witness ==
    /\ lastEvent.op = "keySubmit"
    /\ lastEvent.value = <<SPACE>>
    /\ ~lastEvent.sent
    /\ requests = {}

----------------------------------------------------------------------------
(* C24 *)

\* the /pin/verify request of a key submission was rejected
VerifyRejected ==
    /\ lastEvent'.op = "rejected"
    /\ lastEvent'.kind = "verify"

\* (C24 as stated: a failed verification leaves mirror, persisted key entry
\* and key-configured flag unchanged)
C24_FailedVerifyChangesNothing ==
    [][VerifyRejected =>
          /\ rawKey' = rawKey
          /\ store'[STORAGE_KEY] = store[STORAGE_KEY]
          /\ encryptionKeyConfigured' = encryptionKeyConfigured]_vars

\* C24: handleKeySubmit writes the key to the mirror and to the Durable Store
\* only at the step where /pin/verify has answered with success, and sets the
\* key-configured flag only after that write; a failed verification leaves the
\* mirror and the persisted key entry unchanged and never sets the flag: the
\* flag is unchanged, except that a 401 answer, with the session's handler
\* registered, tears the session down and so resets the flag to false.
C24_StoredOnlyAfterVerify ==
    [][/\ lastEvent'.op = "setKey" =>
            /\ lastEvent'.status = Some(200)
            /\ \E r \in requests : r.kind = "verify" /\ r \notin requests'
       /\ (\E s \in Screens : rawKey'[s] # rawKey[s] /\ TruthyKey(rawKey'[s])) =>
            lastEvent'.op \in {"setKey", "keyHydrated"}
       /\ (store'[STORAGE_KEY] # store[STORAGE_KEY] /\ store'[STORAGE_KEY] # Absent) =>
            lastEvent'.op = "setKey"
       /\ lastEvent'.op = "keyConfigured" =>
            \E r \in requests : r.kind = "keySaved" /\ r \notin requests'
       /\ VerifyRejected =>
            /\ rawKey' = rawKey
            /\ store'[STORAGE_KEY] = store[STORAGE_KEY]
            /\ IF lastEvent'.status = Some(401) /\ unauthorizedHandler # Null
               THEN encryptionKeyConfigured' = FALSE
               ELSE encryptionKeyConfigured' = encryptionKeyConfigured]_vars

\* a verification answered 401 has just reset a flag that was true (its
\* persisted entry is still there), and stored no key
C24_Witness ==
    /\ lastEvent.op = "rejected"
    /\ lastEvent.kind = "verify"
    /\ lastEvent.status = Some(401)
    /\ store[AUTH_KEY_FLAG] = Str("true")
    /\ ~encryptionKeyConfigured
    /\ rawKey["passwords"] = Null
    /\ store[STORAGE_KEY] = Absent

----------------------------------------------------------------------------
(* C25 *)

\* C25: setKey(raw) at time t writes the persisted encryption-key entry with
\* value encode(raw) and expiresAt = t + 300000 whatever the entry held
\* before, touches no other entry, and sets the mirror of the hook instance
\* that called it to encode(raw); each call counts the TTL from its own time.
C25_SetKeyWritesWithTtl ==
    [][lastEvent'.op = "setKey" =>
          /\ store' = [store EXCEPT ![STORAGE_KEY] =
                          JsonStringify([value |-> Some(toBase64(lastEvent'.value)),
                                         expiresAt |-> Some(now + 300000)])]
          /\ lastEvent'.stale \/
                 rawKey'[lastEvent'.screen] = Some(toBase64(lastEvent'.value))]_vars

\* setKey has just replaced an entry that had not expired, at a later time
\* than the one that entry was written at, and the TTL runs from the new time
C25_Witness ==
    /\ lastEvent.op = "setKey"
    /\ JsonParses(lastEvent.prior)
    /\ ~IsExpired(JsonParse(lastEvent.prior), now)
    /\ Prop(JsonParse(lastEvent.prior), "expiresAt").val < now + TTL_MS
    /\ Prop(JsonParse(store[STORAGE_KEY]), "expiresAt") = Some(now + TTL_MS)
    /\ rawKey["passwords"] = Some(encodeKey(lastEvent.value))

----------------------------------------------------------------------------
(* C26 *)

\* handleReveal's catch saw a 401 and called clearKey()
ClearKeyCalled ==
    /\ lastEvent'.op = "rejected"
    /\ lastEvent'.kind = "reveal"
    /\ lastEvent'.status = Some(401)

\* C26: clearKey, whatever the state it is called in, removes the persisted
\* encryption-key entry and makes the mirror of the hook that called it
\* absent, so that key and encodedKey are null; and a hydration that finds no
\* entry, as the one after a restart does, yields an absent key.
C26_ClearKeyClears ==
    [][/\ ClearKeyCalled =>
            /\ store' = [store EXCEPT ![STORAGE_KEY] = Absent]
            /\ lastEvent'.stale \/
                  /\ rawKey'["passwords"] = Null
                  /\ DecodedKey(rawKey'["passwords"]) = Null
       /\ (lastEvent'.op = "keyMount" /\ store[STORAGE_KEY] = Absent) =>
            hydrateRaw'[lastEvent'.screen] = Absent
       /\ (lastEvent'.op = "keyHydrated" /\ lastEvent'.raw = Absent) =>
            /\ rawKey'[lastEvent'.screen] = Null
            /\ store'[STORAGE_KEY] = store[STORAGE_KEY]]_vars

\* a key cached at launch was cleared, and the hydration after it finds
\* nothing although the key's TTL has not run out
C26_Witness ==
    /\ lastEvent.op = "keyHydrated"
    /\ lastEvent.raw = Absent
    /\ lastSetAt.at >= 0
    /\ now <= lastSetAt.at + TTL_MS
    /\ rawKey["passwords"] = Null
    /\ isKeyHydrated["passwords"]
    /\ store[STORAGE_KEY] = Absent

----------------------------------------------------------------------------
(* C27 *)

\* C27: whatever the persisted encryption-key entry holds is the base-64
\* encoding of the raw key last passed to setKey, never that raw key; every
\* mirror that holds a key holds the encoding of a submitted raw key, and the
\* decoded key the hook returns is that raw key.
C27_OnlyEncodedPersisted ==
    /\ store[STORAGE_KEY] # Absent =>
          /\ JsonParses(store[STORAGE_KEY])
          /\ Prop(JsonParse(store[STORAGE_KEY]), "value") = Some(toBase64(lastSetAt.key))
          /\ Prop(JsonParse(store[STORAGE_KEY]), "value") # Some(lastSetAt.key)
          /\ fromBase64(Prop(JsonParse(store[STORAGE_KEY]), "value").val) = lastSetAt.key
    /\ \A s \in Screens :
          rawKey[s] # Null =>
             \E k \in RawKeys :
                /\ rawKey[s] = Some(toBase64(k))
                /\ rawKey[s] # Some(k)
                /\ DecodedKey(rawKey[s]) = Some(k)

\* "1234" was submitted and stored: entry and mirror hold its encoding, and
\* the hook hands back "1234"
C27_Witness ==
    /\ lastEvent.op = "setKey"
    /\ lastEvent.value = <<49, 50, 51, 52>>
    /\ Prop(JsonParse(store[STORAGE_KEY]), "value") = Some(toBase64(<<49, 50, 51, 52>>))
    /\ rawKey["passwords"] = Some(toBase64(<<49, 50, 51, 52>>))
    /\ DecodedKey(rawKey["passwords"]) = Some(<<49, 50, 51, 52>>)

----------------------------------------------------------------------------
(* C28 *)

\* the entry that hydrate() read, when setKey wrote it
HydratedEntry == JsonParse(lastEvent'.raw)

\* C28: a hydration that read the entry setKey had written restores it into
\* the mirror and keeps it in the Durable Store when it runs no later than
\* the entry's expiresAt, and leaves the mirror absent and removes the entry
\* when it runs after expiresAt; every hydration, also one that read
\* nothing, ends with isHydrated true.
C28_RestoreAfterRelaunch ==
    [][lastEvent'.op = "keyHydrated" =>
          /\ isKeyHydrated'[lastEvent'.screen]
          /\ lastEvent'.raw # Absent =>
                IF now <= Prop(HydratedEntry, "expiresAt").val
                THEN /\ rawKey'[lastEvent'.screen] = Prop(HydratedEntry, "value")
                     /\ store' = store
                ELSE /\ rawKey'[lastEvent'.screen] = Null
                     /\ store' = [store EXCEPT ![STORAGE_KEY] = Absent]]_vars

\* a key stored at 1 ms was restored by a hydration at 300001 ms, the last
\* instant of its TTL
C28_Witness ==
    /\ lastEvent.op = "keyHydrated"
    /\ lastSetAt.at = 1
    /\ now = lastSetAt.at + TTL_MS
    /\ lastEvent.raw = store[STORAGE_KEY]
    /\ rawKey["passwords"] = Some(toBase64(lastSetAt.key))
    /\ isKeyHydrated["passwords"]

----------------------------------------------------------------------------
(* C29 *)

\* C29: when the Durable Store write of setKey fails, the mirror of the
\* submitting screen holds the new key and the submission is not reported as
\* failed.
C29_WriteFailureSwallowed ==
    [][(lastEvent'.op = "setKey" /\ ~lastEvent'.wrote /\ ~lastEvent'.stale) =>
          /\ rawKey'[lastEvent'.screen] = Some(toBase64(lastEvent'.value))
          /\ lastEvent'.reported # "invalid key"]_vars

----------------------------------------------------------------------------
(* C30 *)

\* C30: once hydrated, isAuthenticated holds exactly when a non-empty token
\* is held, and without a token there is no session: user is null.
C30_SessionAllOrNothing ==
    isHydrated =>
       /\ IsAuthenticated <=> (token # Null /\ token.val # "")
       /\ ~IsAuthenticated => user = Null

----------------------------------------------------------------------------
(* C31 *)

\* an operation of hydrate() is still to complete
HydrationPending ==
    \E i \in 1..Len(storeQ) :
        \/ storeQ[i].op = "multiGet"
        \/ storeQ[i].op = "removeItem" /\ storeQ[i].key = AUTH_USER_KEY

\* C31: once hydrate() has run to its end, by success, by a failed store
\* operation or over a corrupt user entry, isHydrated is true; within one
\* process it never goes back to false; and while it is false the auth
\* layout shows its spinner, neither the redirect nor the sign-in stack.
C31_HydratedFlag ==
    [][/\ (unauthorizedHandler' # Null /\ ~HydrationPending') => isHydrated'
       /\ (isHydrated /\ lastEvent'.op # "restart") => isHydrated'
       /\ (lastEvent'.op = "authLayout" /\ ~isHydrated) =>
             lastEvent'.shows = "spinner"]_vars

\* hydration ended by the failure of the removal of a corrupt user entry, and
\* the flag is up
C31_Witness ==
    /\ lastEvent.op = "storeFailed"
    /\ lastEvent.done.op = "removeItem"
    /\ store[AUTH_USER_KEY] = Garbage
    /\ isHydrated

----------------------------------------------------------------------------
(* C32 *)

\* the entry just read deserializes and carries no expiresAt
ReadWithoutExpiry ==
    /\ lastEvent.op = "get"
    /\ JsonParses(lastEvent.raw)
    /\ "expiresAt" \notin DOMAIN JsonParse(lastEvent.raw)

\* C32: setItemWithTTL with the ttl omitted or 0 writes an entry without
\* expiresAt, and getItemWithTTL returns the value of an entry without
\* expiresAt at whatever time it is called and leaves the entry as it was.
C32_NoTtlNeverExpires ==
    /\ (lastEvent.op = "set" /\ lastEvent.ttlMs \in {Undefined, Some(0)}) =>
          /\ JsonParses(store[lastEvent.key])
          /\ DOMAIN JsonParse(store[lastEvent.key]) = {"value"}
          /\ JsonParse(store[lastEvent.key]).value = lastEvent.value
    /\ ReadWithoutExpiry =>
          /\ lastEvent.result = JsonParse(lastEvent.raw).value
          /\ store[lastEvent.key] = lastEvent.raw

\* an entry without expiresAt was read after more than the key cache's TTL,
\* and came back
C32_Witness ==
    /\ ReadWithoutExpiry
    /\ lastEvent.at > TTL_MS
    /\ lastEvent.result = Some(toBase64(<<49>>))
    /\ store[lastEvent.key] = lastEvent.raw

----------------------------------------------------------------------------
(* C33 *)

\* C33: in every state reached by hydration, completeLogin and signOut,
\* explicit or set off by a 401, the Authorization header is 'Bearer <token>'
\* of the token held in memory when one is held, and is not set when none is.
C33_HeaderTracksToken ==
    IF token = Null THEN authHeader = Absent
    ELSE authHeader = [tag |-> "header", scheme |-> "Bearer", token |-> token.val]

\* a second login replaced the token while the first is still the persisted
\* one: the header carries the second
C33_Witness ==
    /\ lastEvent.op = "completeLogin"
    /\ token = Some("token-bbbb")
    /\ store[AUTH_TOKEN_KEY] = Str("token-aaaa")
    /\ authHeader = [tag |-> "header", scheme |-> "Bearer", token |-> "token-bbbb"]

----------------------------------------------------------------------------
(* C34 *)

\* the last write to the session's entries that completed was a signOut's
\* removal, no token is held, and nothing is in flight any more
SignedOutAndSettled ==
    /\ persisted.kind \in {"signedOut", "cleared"}
    /\ token = Null
    /\ requests = {}
    /\ storeQ = <<>>

\* C34: once a signOut and the refreshUser or key submission that was
\* suspended on its request when signOut ran have all completed, the
\* in-memory user is null and none of the three persisted session keys is in
\* the Durable Store.
C34_NothingSurvivesSignOut ==
    SignedOutAndSettled => (user = Null /\ SessionKeysAbsent(store))

----------------------------------------------------------------------------
(* C35 *)

\* C35: whenever the session is hydrated and every store operation issued
\* by completeLogin and signOut, explicit or set off by a 401, has
\* completed, the token entry of the Durable Store holds the in-memory token
\* when one is held and is absent when none is.
C35_LoginSignOutConverge ==
    (isHydrated /\ storeQ = <<>>) =>
        IF token = Null THEN store[AUTH_TOKEN_KEY] = Absent
        ELSE store[AUTH_TOKEN_KEY] = Str(token.val)

\* a login's write has just completed after the session it wrote was signed
\* out in memory, the sign-out's removal still pending
C35_Witness ==
    /\ lastEvent.op = "stored"
    /\ lastEvent.done.op = "multiSet"
    /\ token = Null
    /\ store[AUTH_TOKEN_KEY] = Str("token-aaaa")
    /\ Len(storeQ) = 1
    /\ storeQ[1].op = "multiRemove"

----------------------------------------------------------------------------
(* C36 *)

\* C36: while the passwords screen is unmounted no hide timer is pending,
\* also when a reveal was in flight at the time it unmounted.
C36_NoTimerAfterUnmount ==
    keyPc["passwords"] = "unmounted" => timers = {}

----------------------------------------------------------------------------
(* C37 *)

\* the pending timeouts of the mounted instance for id i
LiveTimers(i) == {t \in timers : t.id = i /\ ~t.stale}

\* C37: while the passwords screen is mounted, an id shows a plaintext only
\* while a timeout of the mounted instance is pending for it, and that
\* timeout is the one the registry holds; and a timeout that runs and
\* removes a plaintext removes one that was held for the whole delay since
\* the latest reveal of its id.
C37_PlaintextHasTimer ==
    [][/\ keyPc'["passwords"] # "unmounted" =>
            \A i \in Ids :
                revealedPasswords'[i] # Null =>
                    \E t \in LiveTimers(i)' : hideTimers'[i] = HandleOf(t)
       /\ (lastEvent'.op = "timerFired"
              /\ revealedPasswords[lastEvent'.id] # Null
              /\ revealedPasswords'[lastEvent'.id] = Null) =>
            revealedAge[lastEvent'.id] = HIDE_DELAY]_vars

\* a plaintext of "a" is shown, half its delay has passed, its timer is
\* pending, and a second reveal of "a" is still in flight
C37_Witness ==
    /\ keyPc["passwords"] = "ready"
    /\ revealedPasswords["a"] # Null
    /\ revealedAge["a"] = HIDE_DELAY \div 2
    /\ \E t \in LiveTimers("a") : t.left = HIDE_DELAY \div 2
    /\ \E r \in requests : r.kind = "reveal" /\ r.id = "a" /\ ~r.stale

----------------------------------------------------------------------------
(* C38 *)

\* C38: a key is submitted, and so setKey invoked, only on a screen whose
\* key cache has hydrated; a hydration that completes finds no key in its
\* mirror to overwrite; and it does not replace an entry that setKey has
\* written since the hydration's read with nothing.
C38_HydrationKeepsFreshKey ==
    [][/\ (lastEvent'.op = "keySubmit" /\ lastEvent'.sent) =>
            isKeyHydrated[lastEvent'.screen]
       /\ lastEvent'.op = "keyHydrated" =>
            /\ rawKey[lastEvent'.screen] = Null
            /\ store[STORAGE_KEY] # lastEvent'.raw => store' = store]_vars

----------------------------------------------------------------------------
(* C39 *)

\* the screen other than s
OtherScreen(s) == CHOOSE o \in Screens : o # s

\* C39: when setKey or clearKey completes in one mounted hook instance, every
\* other mounted and hydrated instance holds the same key, or none, as the
\* instance that called it.
C39_MirrorsAgree ==
    [][/\ (lastEvent'.op = "setKey" /\ ~lastEvent'.stale
              /\ keyPc[OtherScreen(lastEvent'.screen)] = "ready") =>
            rawKey'[OtherScreen(lastEvent'.screen)] = rawKey'[lastEvent'.screen]
       /\ (ClearKeyCalled /\ ~lastEvent'.stale /\ keyPc["notes"] = "ready") =>
            rawKey'["notes"] = rawKey'["passwords"]]_vars

============================================================================
